---- MODULE Spec2Model ----
(***************************************************************************)
(* PrepHub: the progress engine of services/firestoreService (streak,      *)
(* badges, goals), the aptitude quiz resume cache of AptitudePrep and the  *)
(* round orchestration of MockInterview, as state machines.                *)
(*                                                                         *)
(* Time is a tick counter; two ticks make one calendar day, so that two    *)
(* different instants can fall on the same day.  The server clock          *)
(* (serverTimestamp) and the client clock (new Date()) are one clock.      *)
(***************************************************************************)
EXTENDS Integers, Sequences, FiniteSets, TLC

\* ---------------------------------------------------------------- bounds
MaxDay == 4
MaxHistory == 1
MaxRevisions == 10
MaxGoals == 3
RoundSize == 2
MockSeconds == 2
MaxSessions == 1
ExtraResults == 1
QuizSize == 2
QuizSeconds == 2
MaxSeedAptitude == 49
MaxSeedOthers == 91
SeedQuizzes == 7
MaxQuestions == 5
MaxUtterances == 3
GdSeconds == 3

\* ------------------------------------------------------- program constants
EpochDate == 0
HistoryLimit == 100

VARIABLES
  now,        \* the clock
  profile,    \* users/{uid}: the profile document
  history,    \* users/{uid}/interview_history, newest first
  revisions,  \* users/{uid}/revisionQuestions: the number of documents
  badges,     \* users/{uid}/badges: badge id -> document
  goals,      \* userGoals: the documents in creation order (id = position)
  dash,       \* one Dashboard per browser tab of the user
  mi,         \* MockInterview: the component state of the last render
  refs,       \* MockInterview: sessionStartTimeRef, backgroundFetchPromise
  promises,   \* MockInterview: the background fetch of each session
  calls,      \* MockInterview: the async calls in flight, oldest first
  finishCalls, \* MockInterview: finishInterview invocations per session
  ap,         \* AptitudePrep: the component state of the last render
  localStorage, \* the slot 'aptitudeQuizInProgress' of the browser storage
  quizRecords, \* AptitudePrep: history records written for the question set in play
  gd          \* GroupDiscussion: the component state of the last render

storeVars == <<now, profile, history, revisions, badges>>
goalVars == <<goals, dash>>
mockVars == <<mi, refs, promises, calls, finishCalls>>
quizVars == <<ap, localStorage, quizRecords>>
gdVars == <<gd>>
vars == <<now, profile, history, revisions, badges, goals, dash,
          mi, refs, promises, calls, finishCalls, ap, localStorage, quizRecords, gd>>

\* ------------------------------------------------------------- optionals
\* A field that may be undefined/null is a sequence of length 0 or 1.
None == <<>>
Some(v) == <<v>>
OrZero(o) == IF o = None THEN 0 ELSE o[1]

Min(a, b) == IF a < b THEN a ELSE b

\* ------------------------------------------------------------------ dates
\* Date.prototype.toDateString: the calendar day of an instant.
toDateString(t) == t \div 2
\* Date.prototype.getDay: 0 is Sunday, 6 is Saturday.  Day 2 is a Friday.
getDay(t) == (toDateString(t) + 3) % 7
\* yesterday.setDate(today.getDate() - 1): the same time of day, one day back.
YesterdayOf(t) == t - 2

\* ----------------------------------------------------------------- badges
allBadges ==
  << "streak-7", "streak-30", "weekend-warrior",
     "apti-10", "apti-50", "apti-perfect",
     "quant-master", "logical-master", "verbal-master", "di-detective",
     "diagnostic-complete", "diagnostic-high-potential",
     "tech-5", "hr-5", "gd-5", "mock-star",
     "profile-auditor", "revisionist", "well-rounded" >>

BadgeIds == {allBadges[i] : i \in 1..Len(allBadges)}

QUANTITATIVE == "Quantitative Aptitude"
LOGICAL_REASONING == "Logical Reasoning"
VERBAL_ABILITY == "Verbal Ability"
DATA_INTERPRETATION == "Data Interpretation"

\* scoreRating is string | number | undefined: a tagged value.
NumberRating(n) == [kind |-> "number", num |-> n]
StringRating == [kind |-> "string", num |-> 0]
NoRating == [kind |-> "undefined", num |-> 0]

\* An evaluator that counts a diagnostic test only on the day it was taken.
checkAllBadgesOfToday(hist, streak, revisionCount, t) ==
  LET aptitudeHistory == SelectSeq(hist, LAMBDA h : h.type = "aptitude")
      diagnosticTests == SelectSeq(aptitudeHistory, LAMBDA h : h.quizType = "Diagnostic")
      CountType(ty) == Len(SelectSeq(hist, LAMBDA h : h.type = ty))
      TopicOver90(topic) ==
          \E i \in 1..Len(aptitudeHistory) :
              /\ aptitudeHistory[i].topic = topic
              /\ aptitudeHistory[i].scoreRating.kind = "number"
              /\ aptitudeHistory[i].scoreRating.num > 90
      allModuleTypes == {hist[i].type : i \in 1..Len(hist)}
      today == getDay(t)
  IN  { b \in BadgeIds :
        \/ b = "streak-7" /\ streak # None /\ streak[1] >= 7
        \/ b = "streak-30" /\ streak # None /\ streak[1] >= 30
        \/ /\ b = "weekend-warrior"
           /\ Len(hist) > 0
           /\ today = 0 \/ today = 6
           /\ toDateString(hist[1].timestamp) = toDateString(t)
        \/ b = "apti-10" /\ Len(aptitudeHistory) >= 10
        \/ b = "apti-50" /\ Len(aptitudeHistory) >= 50
        \/ /\ b = "apti-perfect"
           /\ \E i \in 1..Len(aptitudeHistory) :
                /\ aptitudeHistory[i].scoreRating.kind = "number"
                /\ aptitudeHistory[i].scoreRating.num = 100
                /\ aptitudeHistory[i].questionsAnswered >= 10
        \/ b = "quant-master" /\ TopicOver90(QUANTITATIVE)
        \/ b = "logical-master" /\ TopicOver90(LOGICAL_REASONING)
        \/ b = "verbal-master" /\ TopicOver90(VERBAL_ABILITY)
        \/ b = "di-detective" /\ TopicOver90(DATA_INTERPRETATION)
        \/ /\ b = "diagnostic-complete"
           /\ Len(diagnosticTests) > 0
           /\ toDateString(diagnosticTests[1].timestamp) = toDateString(t)
        \/ /\ b = "diagnostic-high-potential"
           /\ \E i \in 1..Len(diagnosticTests) :
                /\ diagnosticTests[i].scoreRating.kind = "number"
                /\ diagnosticTests[i].scoreRating.num > 75
        \/ b = "tech-5" /\ CountType("technical") >= 5
        \/ b = "hr-5" /\ CountType("hr") >= 5
        \/ b = "gd-5" /\ CountType("group_discussion") >= 5
        \/ b = "mock-star" /\ CountType("mock") >= 3
        \/ b = "profile-auditor" /\ \E i \in 1..Len(hist) : hist[i].type = "profile_review"
        \/ b = "revisionist" /\ revisionCount >= 10
        \/ /\ b = "well-rounded"
           /\ {"aptitude", "technical", "hr", "group_discussion", "profile_review"}
                 \subseteq allModuleTypes }

\* checkAllBadges(history, streak, revisionCount), evaluated at instant t
\* (the code reads new Date() twice).  hist is newest first; streak is an
\* optional number (undefined >= 7 is false).
checkAllBadges(hist, streak, revisionCount, t) ==
  LET aptitudeHistory == SelectSeq(hist, LAMBDA h : h.type = "aptitude")
      diagnosticTests == SelectSeq(aptitudeHistory, LAMBDA h : h.quizType = "Diagnostic")
      CountType(ty) == Len(SelectSeq(hist, LAMBDA h : h.type = ty))
      TopicOver90(topic) ==
          \E i \in 1..Len(aptitudeHistory) :
              /\ aptitudeHistory[i].topic = topic
              /\ aptitudeHistory[i].scoreRating.kind = "number"
              /\ aptitudeHistory[i].scoreRating.num > 90
      allModuleTypes == {hist[i].type : i \in 1..Len(hist)}
      today == getDay(t)
  IN  { b \in BadgeIds :
        \/ b = "streak-7" /\ streak # None /\ streak[1] >= 7
        \/ b = "streak-30" /\ streak # None /\ streak[1] >= 30
        \/ /\ b = "weekend-warrior"
           /\ Len(hist) > 0
           /\ today = 0 \/ today = 6
           /\ toDateString(hist[1].timestamp) = toDateString(t)
        \/ b = "apti-10" /\ Len(aptitudeHistory) >= 10
        \/ b = "apti-50" /\ Len(aptitudeHistory) >= 50
        \/ /\ b = "apti-perfect"
           /\ \E i \in 1..Len(aptitudeHistory) :
                /\ aptitudeHistory[i].scoreRating.kind = "number"
                /\ aptitudeHistory[i].scoreRating.num = 100
                /\ aptitudeHistory[i].questionsAnswered >= 10
        \/ b = "quant-master" /\ TopicOver90(QUANTITATIVE)
        \/ b = "logical-master" /\ TopicOver90(LOGICAL_REASONING)
        \/ b = "verbal-master" /\ TopicOver90(VERBAL_ABILITY)
        \/ b = "di-detective" /\ TopicOver90(DATA_INTERPRETATION)
        \/ b = "diagnostic-complete" /\ Len(diagnosticTests) > 0
        \/ /\ b = "diagnostic-high-potential"
           /\ \E i \in 1..Len(diagnosticTests) :
                /\ diagnosticTests[i].scoreRating.kind = "number"
                /\ diagnosticTests[i].scoreRating.num > 75
        \/ b = "tech-5" /\ CountType("technical") >= 5
        \/ b = "hr-5" /\ CountType("hr") >= 5
        \/ b = "gd-5" /\ CountType("group_discussion") >= 5
        \/ b = "mock-star" /\ CountType("mock") >= 3
        \/ b = "profile-auditor" /\ \E i \in 1..Len(hist) : hist[i].type = "profile_review"
        \/ b = "revisionist" /\ revisionCount >= 10
        \/ /\ b = "well-rounded"
           /\ {"aptitude", "technical", "hr", "group_discussion", "profile_review"}
                 \subseteq allModuleTypes }

\* getInterviewHistory: orderBy('timestamp','desc'), limit(100).
getInterviewHistory(hist) == SubSeq(hist, 1, Min(Len(hist), HistoryLimit))

\* ------------------------------------------------------ profile and streak
NoProfile == [exists |-> FALSE, streak |-> None, lastActivityDate |-> None]

\* The streak rule of updateUserStreakAndBadges: the profile document after
\* the call, and whether setDoc({streak, lastActivityDate}) was issued.
\* A missing document is created first with {userId} only.
SkipSameDayCheck(p, t) ==
  LET lastActivity == IF p.lastActivityDate # None THEN p.lastActivityDate[1] ELSE EpochDate
  IN  [ doc |-> [ exists |-> TRUE,
                  streak |-> IF toDateString(lastActivity) = toDateString(YesterdayOf(t))
                               THEN Some(OrZero(p.streak) + 1)
                               ELSE Some(1),
                  lastActivityDate |-> Some(t) ],
        written |-> TRUE ]

AlwaysIncrement(p, t) ==
  LET lastActivity == IF p.lastActivityDate # None THEN p.lastActivityDate[1] ELSE EpochDate
      isSameDay == toDateString(t) = toDateString(lastActivity)
  IN  IF ~isSameDay
        THEN [ doc |-> [ exists |-> TRUE,
                         streak |-> Some(OrZero(p.streak) + 1),
                         lastActivityDate |-> Some(t) ],
               written |-> TRUE ]
        ELSE [ doc |-> [p EXCEPT !.exists = TRUE], written |-> FALSE ]

UpdateStreak(p, t) ==
  LET lastActivity == IF p.lastActivityDate # None THEN p.lastActivityDate[1] ELSE EpochDate
      isSameDay == toDateString(t) = toDateString(lastActivity)
  IN  IF ~isSameDay
        THEN [ doc |-> [ exists |-> TRUE,
                         streak |-> IF toDateString(lastActivity) = toDateString(YesterdayOf(t))
                                      THEN Some(OrZero(p.streak) + 1)
                                      ELSE Some(1),
                         lastActivityDate |-> Some(t) ],
               written |-> TRUE ]
        ELSE [ doc |-> [p EXCEPT !.exists = TRUE], written |-> FALSE ]

\* The badge batch: one set() per satisfied badge id that has a definition,
\* with earned: true; nothing else is touched.  (earnedAt, a timestamp that no
\* operation of the service reads back, is left out of the document.)
NoDoc == [exists |-> FALSE, earned |-> FALSE]

ReplaceBadgeCollection(bd, ids, t) ==
  [ b \in BadgeIds |-> IF b \in ids
                         THEN [exists |-> TRUE, earned |-> TRUE]
                         ELSE NoDoc ]

CommitBadges(bd, ids, t) ==
  [ b \in BadgeIds |-> IF b \in ids
                         THEN [exists |-> TRUE, earned |-> TRUE]
                         ELSE bd[b] ]

\* updateUserStreakAndBadges(userId), run after the collections have become
\* hist and revs.
updateUserStreakAndBadges(hist, revs) ==
  LET upd == UpdateStreak(profile, now)
      newBadgeIds == checkAllBadges(getInterviewHistory(hist), upd.doc.streak, revs, now)
  IN  /\ profile' = upd.doc
      /\ badges' = CommitBadges(badges, newBadgeIds, now)

\* ------------------------------------------------------------ history log
AptitudeRecord(topic, score, n, quizType) ==
  [ type |-> "aptitude", sessionId |-> 0, scoreRating |-> NumberRating(score),
    topic |-> topic, quizType |-> quizType, questionsAnswered |-> n ]
OtherRecord(type, rating) ==
  [ type |-> type, sessionId |-> 0, scoreRating |-> rating, topic |-> "",
    quizType |-> "", questionsAnswered |-> 0 ]

\* The session records the components hand to saveInterviewHistory.
HistoryInputs ==
  { AptitudeRecord(QUANTITATIVE, 100, 10, "Practice"),
    AptitudeRecord("Diagnostic Test", 40, 30, "Diagnostic"),
    OtherRecord("mock", StringRating) }

\* docData = {...historyData, userId, timestamp: serverTimestamp()}
DocData(h, t) ==
  [ type |-> h.type, sessionId |-> h.sessionId, scoreRating |-> h.scoreRating,
    topic |-> h.topic,
    quizType |-> h.quizType, questionsAnswered |-> h.questionsAnswered,
    timestamp |-> t ]

\* saveInterviewHistory(userId, historyData): addDoc, then the streak and
\* badge update.
saveInterviewHistory(h) ==
  /\ history' = <<DocData(h, now)>> \o history
  /\ updateUserStreakAndBadges(history', revisions)

\* The records saved since the observation began: every specification
\* starts at instant 4 or later, and the records a user holds from earlier
\* days carry earlier timestamps.
SessionRecords(hist) == SelectSeq(hist, LAMBDA r : r.timestamp >= 4)

\* A practice component completes a session and saves its record.
SaveInterviewHistory(h) ==
  /\ Len(SessionRecords(history)) < MaxHistory
  /\ saveInterviewHistory(h)
  /\ UNCHANGED <<now, revisions>>
  /\ UNCHANGED goalVars
  /\ UNCHANGED mockVars
  /\ UNCHANGED quizVars
  /\ UNCHANGED gdVars

\* The collection of a user who, at instant t, took the diagnostic test and
\* a - 1 practice quizzes (with scores from 60 to 90) and then m mock
\* interviews (newest first).
SeedHistory(a, m, t) ==
  [ i \in 1..(a + m) |->
      IF i <= m THEN DocData(OtherRecord("mock", StringRating), t)
      ELSE IF i = a + m
             THEN DocData(AptitudeRecord("Diagnostic Test", 40, 30, "Diagnostic"), t)
             ELSE DocData(AptitudeRecord(QUANTITATIVE, 60 + 10 * ((a + m - i) % 4),
                                         10, "Practice"), t) ]

\* The badge ids committed by the saves that built hist, one record after
\* the other, each followed by updateUserStreakAndBadges at instant t.
BadgesAfter(hist, streak, revs, t) ==
  UNION { checkAllBadges(getInterviewHistory(SubSeq(hist, Len(hist) - k + 1, Len(hist))),
                         streak, revs, t) : k \in 1..Len(hist) }

\* The stored documents of a user who returns at instant t after the
\* sessions of SeedHistory(a, m, .) on the day before.
ReturningUser(a, m, t) ==
  /\ history = SeedHistory(a, m, YesterdayOf(t))
  /\ profile = IF a + m = 0 THEN NoProfile
               ELSE [exists |-> TRUE, streak |-> Some(1),
                     lastActivityDate |-> Some(YesterdayOf(t))]
  /\ badges = CommitBadges([b \in BadgeIds |-> NoDoc],
                           BadgesAfter(history, Some(1), 0, YesterdayOf(t)),
                           YesterdayOf(t))

\* tagQuestionForRevision(question)
TagQuestionForRevision ==
  /\ revisions < MaxRevisions
  /\ revisions' = revisions + 1
  /\ updateUserStreakAndBadges(history, revisions')
  /\ UNCHANGED <<now, history>>
  /\ UNCHANGED goalVars
  /\ UNCHANGED mockVars
  /\ UNCHANGED quizVars
  /\ UNCHANGED gdVars

\* An untagging that would run the streak-and-badge update as tagging does.
UntagWithStreakUpdate ==
  /\ revisions > 0
  /\ revisions' = revisions - 1
  /\ updateUserStreakAndBadges(history, revisions')
  /\ UNCHANGED <<now, history>>
  /\ UNCHANGED goalVars
  /\ UNCHANGED mockVars
  /\ UNCHANGED quizVars
  /\ UNCHANGED gdVars

\* untagQuestionForRevision(userId, id): deleteDoc of one revision question.
UntagQuestionForRevision ==
  /\ revisions > 0
  /\ revisions' = revisions - 1
  /\ UNCHANGED <<now, profile, history, badges>>
  /\ UNCHANGED goalVars
  /\ UNCHANGED mockVars
  /\ UNCHANGED quizVars
  /\ UNCHANGED gdVars

\* The clock advances.
Tick ==
  /\ toDateString(now + 1) <= MaxDay
  /\ now' = now + 1
  /\ UNCHANGED <<profile, history, revisions, badges>>
  /\ UNCHANGED goalVars
  /\ UNCHANGED mockVars
  /\ UNCHANGED quizVars
  /\ UNCHANGED gdVars

\* ------------------------------------------------------------------ goals
\* Accuracies are kept in sixtieths of a percent, so that the average of up
\* to five scores is exact.
Percent(n) == n * 60

RECURSIVE SumScores(_)
SumScores(s) == IF s = <<>> THEN 0 ELSE s[1].scoreRating.num + SumScores(Tail(s))

\* An average over every record of the topic, without the limit(5).
AverageOfAllRecords(hist, topic) ==
  LET matching == SelectSeq(hist, LAMBDA h : h.type = "aptitude" /\ h.topic = topic)
  IN  IF matching = <<>> THEN None
      ELSE Some((SumScores(matching) * 60) \div Len(matching))

\* getAverageAccuracyForTopic: the mean scoreRating of the five most recent
\* aptitude records of the topic, null when there is none.
getAverageAccuracyForTopic(hist, topic) ==
  LET matching == SelectSeq(hist, LAMBDA h : h.type = "aptitude" /\ h.topic = topic)
      docs == SubSeq(matching, 1, Min(Len(matching), 5))
  IN  IF docs = <<>> THEN None
      ELSE Some((SumScores(docs) * 60) \div Len(docs))

Uid == "u1"
OtherUid == "u2"
Tabs == {"tab1", "tab2"}

\* The ids of the documents matching where(userId == uid), where(isActive == true).
ActiveGoalIds(gs, uid) == {i \in 1..Len(gs) : gs[i].userId = uid /\ gs[i].isActive}

\* A batch that deletes the user's active goals instead of updating them.
DeleteOldGoals(gs, snapshot, goal) ==
  Append(SelectSeq(gs, LAMBDA g : ~(g.userId = goal.userId /\ g.isActive)), goal)

\* setUserGoal's batch: update(isActive: false) for every document the query
\* returned, set() of the new document; committed at once.
GoalBatch(gs, snapshot, goal) ==
  Append([i \in 1..Len(gs) |-> IF i \in snapshot
                                 THEN [gs[i] EXCEPT !.isActive = FALSE]
                                 ELSE gs[i]],
         goal)

\* getActiveGoal with the limit(1) query returning document id: the goal
\* documents after the lazy refresh of currentAccuracy.
RefreshGoal(gs, hist, id) ==
  LET currentAccuracy == getAverageAccuracyForTopic(hist, gs[id].topic)
  IN  IF currentAccuracy # None /\ currentAccuracy[1] # gs[id].currentAccuracy
        THEN [gs EXCEPT ![id].currentAccuracy = currentAccuracy[1]]
        ELSE gs

IdleDash == [pc |-> "fetch", activeGoal |-> None, snapshot |-> {}, goal |-> None]

\* Dashboard.fetchData: getActiveGoal(uid), then setActiveGoal(goal).
FetchData(s) ==
  /\ dash[s].pc = "fetch"
  /\ \/ /\ ActiveGoalIds(goals, Uid) = {}
        /\ goals' = goals
        /\ dash' = [dash EXCEPT ![s].pc = "idle", ![s].activeGoal = None]
     \/ \E id \in ActiveGoalIds(goals, Uid) :
          /\ goals' = RefreshGoal(goals, history, id)
          /\ dash' = [dash EXCEPT ![s].pc = "idle", ![s].activeGoal = Some(id)]
  /\ UNCHANGED storeVars
  /\ UNCHANGED mockVars
  /\ UNCHANGED quizVars
  /\ UNCHANGED gdVars

\* GoalSetter.handleSave up to the query of setUserGoal: the two AI answers
\* (extracted topic, parsed goal), the accuracy read in between, the goal
\* object, and the snapshot of the active goals to deactivate.
HandleSave(s, extracted, parsedTopic, targetAccuracy) ==
  /\ dash[s].pc = "idle"
  /\ dash[s].activeGoal = None
  /\ Len(goals) + Cardinality({t \in Tabs : dash[t].pc = "commit"}) < MaxGoals
  /\ LET currentAccuracy == getAverageAccuracyForTopic(history, extracted)
         initialAccuracy == IF currentAccuracy # None THEN currentAccuracy[1] ELSE 0
         goal == [ userId |-> Uid, topic |-> parsedTopic,
                   targetAccuracy |-> targetAccuracy, isActive |-> TRUE,
                   initialAccuracy |-> initialAccuracy,
                   currentAccuracy |-> initialAccuracy ]
     IN  dash' = [dash EXCEPT ![s].pc = "commit",
                              ![s].snapshot = ActiveGoalIds(goals, Uid),
                              ![s].goal = Some(goal)]
  /\ UNCHANGED <<goals>>
  /\ UNCHANGED storeVars
  /\ UNCHANGED mockVars
  /\ UNCHANGED quizVars
  /\ UNCHANGED gdVars

\* parseUserGoal (or another awaited call) throws: the catch block of
\* handleSave shows an error and nothing is written.
HandleSaveFails(s) ==
  /\ dash[s].pc = "idle"
  /\ dash[s].activeGoal = None
  /\ dash' = [dash EXCEPT ![s] = [IdleDash EXCEPT !.pc = "idle"]]
  /\ UNCHANGED <<goals>>
  /\ UNCHANGED storeVars
  /\ UNCHANGED mockVars
  /\ UNCHANGED quizVars
  /\ UNCHANGED gdVars

\* batch.commit() of setUserGoal, then onGoalSet() starts fetchData().
CommitGoal(s) ==
  /\ dash[s].pc = "commit"
  /\ goals' = GoalBatch(goals, dash[s].snapshot, dash[s].goal[1])
  /\ dash' = [dash EXCEPT ![s].pc = "fetch", ![s].snapshot = {}, ![s].goal = None]
  /\ UNCHANGED storeVars
  /\ UNCHANGED mockVars
  /\ UNCHANGED quizVars
  /\ UNCHANGED gdVars

\* The Dashboard is opened again (navigation back to it, or a reload).
Remount(s) ==
  /\ dash[s].pc = "idle"
  /\ dash' = [dash EXCEPT ![s] = IdleDash]
  /\ UNCHANGED <<goals>>
  /\ UNCHANGED storeVars
  /\ UNCHANGED mockVars
  /\ UNCHANGED quizVars
  /\ UNCHANGED gdVars

\* ------------------------------------------------------------ MockInterview
\* components/MockInterview.tsx. Each click handler and each resumption of
\* an async function after an await is one step; the timer effect runs in
\* the step of the tick that triggers it.
INTERVIEW_STRUCTURE == <<"Aptitude", "Technical", "HR">>

\* The source's 30, 6 and 6 questions, scaled to one bound.
ROUND_QUESTION_COUNT ==
  [Aptitude |-> RoundSize, Technical |-> RoundSize, HR |-> RoundSize]

\* INTERVIEW_STRUCTURE[currentRoundIndex]
RoundType(i) ==
  IF i < Len(INTERVIEW_STRUCTURE) THEN INTERVIEW_STRUCTURE[i + 1] ELSE "undefined"

\* new Array(n).fill(v)
Fill(n, v) == [i \in 1..n |-> v]

MockIdle ==
  [ flow |-> "setup", isLoading |-> FALSE, error |-> "null", timeLeft |-> 0,
    currentRoundIndex |-> 0, currentQuestionIndex |-> 0,
    aptitudeQuestions |-> 0, aptitudeAnswers |-> <<>>,
    technicalQuestions |-> 0, technicalAnswers |-> <<>>,
    hrQuestions |-> 0, hrAnswers |-> <<>>,
    roundResults |-> <<>>, finalResults |-> <<>>, overallFeedback |-> "" ]

\* One MockInterviewRoundResult. The correct option of every aptitude
\* question is "A". session is the session whose answers the entry scores.
AptitudeResult(answers, total, s) ==
  [ type |-> "Aptitude", q |-> 0, answer |-> "",
    correctAnswers |-> Cardinality({i \in 1..total : i <= Len(answers) /\ answers[i] = "A"}),
    total |-> total, session |-> s ]

\* conversation.map(...) of a Technical or HR round
ConversationResults(type, questions, answers, s) ==
  [ i \in 1..questions |->
      [ type |-> type, q |-> i,
        answer |-> IF i <= Len(answers) THEN answers[i] ELSE "undefined",
        correctAnswers |-> 0, total |-> 0, session |-> s ] ]

\* The questions and answers the active view shows for the current round.
RoundQuestions(m) ==
  CASE RoundType(m.currentRoundIndex) = "Aptitude" -> m.aptitudeQuestions
    [] RoundType(m.currentRoundIndex) = "Technical" -> m.technicalQuestions
    [] RoundType(m.currentRoundIndex) = "HR" -> m.hrQuestions
    [] OTHER -> 0

RoundAnswers(m) ==
  CASE RoundType(m.currentRoundIndex) = "Aptitude" -> m.aptitudeAnswers
    [] RoundType(m.currentRoundIndex) = "Technical" -> m.technicalAnswers
    [] RoundType(m.currentRoundIndex) = "HR" -> m.hrAnswers
    [] OTHER -> <<>>

\* The active view shows a question (and the footer buttons work on it).
QuestionShown(m) ==
  /\ m.flow = "active"
  /\ ~m.isLoading
  /\ RoundQuestions(m) > 0
  /\ m.currentQuestionIndex < RoundQuestions(m)

\* renderActive: isNextDisabled
isNextDisabled(m) ==
  RoundAnswers(m)[m.currentQuestionIndex + 1] \in {"null", ""}

\* The longest roundResults followed: one full interview and the entries a
\* retried round transition adds again.
ResultsCap == 1 + 2 * RoundSize + ExtraResults

isLastQuestionInRound(m) ==
  /\ RoundType(m.currentRoundIndex) # "undefined"
  /\ m.currentQuestionIndex = ROUND_QUESTION_COUNT[RoundType(m.currentRoundIndex)] - 1

NewCall(kind, phase, round, results, fresh, promise, s) ==
  [ kind |-> kind, phase |-> phase, round |-> round, results |-> results,
    fresh |-> fresh, promise |-> promise, session |-> s ]

Without(cs, i) == SubSeq(cs, 1, i - 1) \o SubSeq(cs, i + 1, Len(cs))

\* The answers given so far in the round shown.
AnsweredSoFar(m) ==
  {i \in 1..Len(RoundAnswers(m)) : RoundAnswers(m)[i] \notin {"null", ""}}

\* The results the answers given so far in the round shown would score to.
PartialRoundResults(m) ==
  IF RoundType(m.currentRoundIndex) = "Aptitude"
  THEN IF AnsweredSoFar(m) = {} THEN <<>>
       ELSE <<AptitudeResult(m.aptitudeAnswers, m.aptitudeQuestions, refs.sessionStartTime)>>
  ELSE SelectSeq(ConversationResults(RoundType(m.currentRoundIndex), RoundQuestions(m),
                                     RoundAnswers(m), refs.sessionStartTime),
                 LAMBDA e : e.q \in AnsweredSoFar(m))

\* A finalization that also scores the answers of the unfinished round.
FinishWithPartialRound(m, currentResults) ==
  [m EXCEPT !.isLoading = TRUE, !.flow = "results",
            !.finalResults = currentResults \o PartialRoundResults(m)]

\* finishInterview up to its first await: the state updates it makes.
finishInterview(m, currentResults) ==
  [m EXCEPT !.isLoading = TRUE, !.flow = "results", !.finalResults = currentResults]

FinishCall(currentResults) ==
  NewCall("finish", "report", 0, currentResults, <<>>, 0, refs.sessionStartTime)

CountFinish == [finishCalls EXCEPT ![refs.sessionStartTime] = @ + 1]

\* startInterview up to the await of generateAptitudeQuestions, clicked
\* while fewer than cap sessions were started.
StartSession(cap) ==
  /\ mi.flow = "setup"
  /\ ~mi.isLoading
  /\ refs.sessionStartTime < cap
  /\ mi' = [mi EXCEPT !.isLoading = TRUE, !.error = "null"]
  /\ refs' = [refs EXCEPT !.sessionStartTime = @ + 1]
  /\ calls' = Append(calls, NewCall("start", "aptitude", 0, <<>>, <<>>, 0,
                                    refs.sessionStartTime + 1))
  /\ UNCHANGED <<promises, finishCalls>>
  /\ UNCHANGED storeVars
  /\ UNCHANGED goalVars
  /\ UNCHANGED quizVars
  /\ UNCHANGED gdVars

\* "Start Interview" ...
StartInterview == StartSession(MaxSessions)

\* ... and with one more session allowed, so that a session follows one
\* that was finalized.
RestartInterview == StartSession(MaxSessions + 1)

\* generateAptitudeQuestions resolved with a list of n questions: the rest
\* of startInterview.
StartReturns(i, n) ==
  /\ i \in 1..Len(calls)
  /\ calls[i].kind = "start"
  /\ mi' = [mi EXCEPT
       !.aptitudeQuestions = n,
       !.aptitudeAnswers = Fill(n, "null"),
       !.technicalQuestions = 0, !.technicalAnswers = <<>>,
       !.hrQuestions = 0, !.hrAnswers = <<>>,
       !.timeLeft = MockSeconds,
       !.currentRoundIndex = 0, !.currentQuestionIndex = 0,
       !.roundResults = <<>>, !.flow = "active", !.isLoading = FALSE]
  /\ promises' = Append(promises, "pending")
  /\ refs' = [refs EXCEPT !.backgroundFetchPromise = Len(promises) + 1]
  /\ calls' = Without(calls, i)
  /\ UNCHANGED finishCalls
  /\ UNCHANGED storeVars
  /\ UNCHANGED goalVars
  /\ UNCHANGED quizVars
  /\ UNCHANGED gdVars

\* The generator returns as many questions as it was asked for.
StartResolves(i) == StartReturns(i, ROUND_QUESTION_COUNT["Aptitude"])

\* generateAptitudeQuestions rejected: the catch of startInterview.
StartFails(i) ==
  /\ i \in 1..Len(calls)
  /\ calls[i].kind = "start"
  /\ mi' = [mi EXCEPT !.error = "setup", !.flow = "setup", !.isLoading = FALSE]
  /\ calls' = Without(calls, i)
  /\ UNCHANGED <<refs, promises, finishCalls>>
  /\ UNCHANGED storeVars
  /\ UNCHANGED goalVars
  /\ UNCHANGED quizVars
  /\ UNCHANGED gdVars

\* The background fetch resolved with nt Technical and nh HR questions.
BackgroundFetchReturns(p, nt, nh) ==
  /\ p \in 1..Len(promises)
  /\ promises[p] = "pending"
  /\ promises' = [promises EXCEPT ![p] = "resolved"]
  /\ mi' = [mi EXCEPT
       !.technicalQuestions = nt,
       !.technicalAnswers = Fill(nt, ""),
       !.hrQuestions = nh,
       !.hrAnswers = Fill(nh, "")]
  /\ UNCHANGED <<refs, calls, finishCalls>>
  /\ UNCHANGED storeVars
  /\ UNCHANGED goalVars
  /\ UNCHANGED quizVars
  /\ UNCHANGED gdVars

\* Both generators return as many questions as they were asked for.
BackgroundFetchResolves(p) ==
  BackgroundFetchReturns(p, ROUND_QUESTION_COUNT["Technical"], ROUND_QUESTION_COUNT["HR"])

\* The background fetch failed: the promise rejects.
BackgroundFetchRejects(p) ==
  /\ p \in 1..Len(promises)
  /\ promises[p] = "pending"
  /\ promises' = [promises EXCEPT ![p] = "rejected"]
  /\ UNCHANGED <<mi, refs, calls, finishCalls>>
  /\ UNCHANGED storeVars
  /\ UNCHANGED goalVars
  /\ UNCHANGED quizVars
  /\ UNCHANGED gdVars

\* The candidate picks an option or types an answer to the question shown
\* (once per question).
AnswerQuestion(a) ==
  /\ QuestionShown(mi)
  /\ isNextDisabled(mi)
  /\ a \in (IF RoundType(mi.currentRoundIndex) = "Aptitude" THEN {"A", "B"} ELSE {"text"})
  /\ mi' = CASE RoundType(mi.currentRoundIndex) = "Aptitude" ->
                  [mi EXCEPT !.aptitudeAnswers[mi.currentQuestionIndex + 1] = a]
             [] RoundType(mi.currentRoundIndex) = "Technical" ->
                  [mi EXCEPT !.technicalAnswers[mi.currentQuestionIndex + 1] = a]
             [] OTHER ->
                  [mi EXCEPT !.hrAnswers[mi.currentQuestionIndex + 1] = a]
  /\ UNCHANGED <<refs, promises, calls, finishCalls>>
  /\ UNCHANGED storeVars
  /\ UNCHANGED goalVars
  /\ UNCHANGED quizVars
  /\ UNCHANGED gdVars

\* proceedToNext, clicked on a question that is not the last of its round.
NextQuestion ==
  /\ QuestionShown(mi)
  /\ ~isNextDisabled(mi)
  /\ ~isLastQuestionInRound(mi)
  /\ mi' = [mi EXCEPT !.currentQuestionIndex = @ + 1]
  /\ UNCHANGED <<refs, promises, calls, finishCalls>>
  /\ UNCHANGED storeVars
  /\ UNCHANGED goalVars
  /\ UNCHANGED quizVars
  /\ UNCHANGED gdVars

\* proceedToNext, clicked on the last question of a round, up to its first
\* await: the Aptitude round is scored at once and waits for the background
\* fetch; the other rounds wait for the AI feedback.
ProceedToNext ==
  /\ QuestionShown(mi)
  /\ ~isNextDisabled(mi)
  /\ isLastQuestionInRound(mi)
  /\ Len(mi.roundResults) + (IF RoundType(mi.currentRoundIndex) = "Aptitude"
                              THEN 1 ELSE RoundQuestions(mi)) <= ResultsCap
  /\ LET type == RoundType(mi.currentRoundIndex)
         s == refs.sessionStartTime
     IN IF type = "Aptitude"
        THEN LET updatedResults ==
                   mi.roundResults \o
                   <<AptitudeResult(mi.aptitudeAnswers, mi.aptitudeQuestions, s)>>
             IN /\ mi' = [mi EXCEPT !.isLoading = TRUE, !.roundResults = updatedResults]
                /\ calls' = Append(calls,
                     NewCall("proceed", "background", mi.currentRoundIndex,
                             updatedResults, <<>>, refs.backgroundFetchPromise, s))
        ELSE /\ mi' = [mi EXCEPT !.isLoading = TRUE]
             /\ calls' = Append(calls,
                  NewCall("proceed", "feedback", mi.currentRoundIndex, mi.roundResults,
                          ConversationResults(type, RoundQuestions(mi), RoundAnswers(mi), s),
                          0, s))
  /\ UNCHANGED <<refs, promises, finishCalls>>
  /\ UNCHANGED storeVars
  /\ UNCHANGED goalVars
  /\ UNCHANGED quizVars
  /\ UNCHANGED gdVars

\* The AI feedback of a Technical or HR round arrived: setRoundResults, then
\* the wait for the background fetch or, after the last round,
\* finishInterview and the finally block.
FeedbackResolves(i) ==
  /\ i \in 1..Len(calls)
  /\ calls[i].kind = "proceed"
  /\ calls[i].phase = "feedback"
  /\ LET c == calls[i]
         updatedResults == c.results \o c.fresh
         m == [mi EXCEPT !.roundResults = updatedResults]
     IN IF c.round < Len(INTERVIEW_STRUCTURE) - 1
        THEN /\ mi' = m
             /\ calls' = [calls EXCEPT ![i] =
                  [c EXCEPT !.phase = "background", !.results = updatedResults,
                            !.promise = refs.backgroundFetchPromise]]
             /\ UNCHANGED finishCalls
        ELSE /\ mi' = [finishInterview(m, updatedResults) EXCEPT !.isLoading = FALSE]
             /\ calls' = Append(Without(calls, i), FinishCall(updatedResults))
             /\ finishCalls' = CountFinish
  /\ UNCHANGED <<refs, promises>>
  /\ UNCHANGED storeVars
  /\ UNCHANGED goalVars
  /\ UNCHANGED quizVars
  /\ UNCHANGED gdVars

\* The catch and finally blocks of proceedToNext.
AbortAndAdvance(m) ==
  [m EXCEPT !.error = "round", !.isLoading = FALSE,
            !.currentRoundIndex = @ + 1, !.currentQuestionIndex = 0]

AbortTransition(m) ==
  [m EXCEPT !.error = "round", !.isLoading = FALSE]

\* The AI feedback call failed.
FeedbackFails(i) ==
  /\ i \in 1..Len(calls)
  /\ calls[i].kind = "proceed"
  /\ calls[i].phase = "feedback"
  /\ mi' = AbortTransition(mi)
  /\ calls' = Without(calls, i)
  /\ UNCHANGED <<refs, promises, finishCalls>>
  /\ UNCHANGED storeVars
  /\ UNCHANGED goalVars
  /\ UNCHANGED quizVars
  /\ UNCHANGED gdVars

\* A transition that would give every round a countdown of its own.
NextRoundWithOwnCountdown(i) ==
  /\ i \in 1..Len(calls)
  /\ calls[i].kind = "proceed"
  /\ calls[i].phase = "background"
  /\ calls[i].promise = 0 \/ promises[calls[i].promise] = "resolved"
  /\ mi' = [mi EXCEPT !.currentRoundIndex = @ + 1, !.currentQuestionIndex = 0,
                      !.isLoading = FALSE, !.timeLeft = MockSeconds]
  /\ calls' = Without(calls, i)
  /\ UNCHANGED <<refs, promises, finishCalls>>
  /\ UNCHANGED storeVars
  /\ UNCHANGED goalVars
  /\ UNCHANGED quizVars
  /\ UNCHANGED gdVars

\* The awaited background fetch is resolved (or there was none): the next
\* round starts.
NextRound(i) ==
  /\ i \in 1..Len(calls)
  /\ calls[i].kind = "proceed"
  /\ calls[i].phase = "background"
  /\ calls[i].promise = 0 \/ promises[calls[i].promise] = "resolved"
  /\ mi' = [mi EXCEPT !.currentRoundIndex = @ + 1, !.currentQuestionIndex = 0,
                      !.isLoading = FALSE]
  /\ calls' = Without(calls, i)
  /\ UNCHANGED <<refs, promises, finishCalls>>
  /\ UNCHANGED storeVars
  /\ UNCHANGED goalVars
  /\ UNCHANGED quizVars
  /\ UNCHANGED gdVars

\* The awaited background fetch is rejected.
NextRoundFails(i) ==
  /\ i \in 1..Len(calls)
  /\ calls[i].kind = "proceed"
  /\ calls[i].phase = "background"
  /\ calls[i].promise # 0
  /\ promises[calls[i].promise] = "rejected"
  /\ mi' = AbortTransition(mi)
  /\ calls' = Without(calls, i)
  /\ UNCHANGED <<refs, promises, finishCalls>>
  /\ UNCHANGED storeVars
  /\ UNCHANGED goalVars
  /\ UNCHANGED quizVars
  /\ UNCHANGED gdVars

\* One second passes on the interview timer; when it reaches 0 the timer
\* effect of that render calls finishInterview(roundResults).
TimerTick ==
  /\ mi.flow = "active"
  /\ mi.timeLeft > 0
  /\ LET m == [mi EXCEPT !.timeLeft = @ - 1]
     IN IF m.timeLeft = 0
        THEN /\ mi' = finishInterview(m, m.roundResults)
             /\ calls' = Append(calls, FinishCall(m.roundResults))
             /\ finishCalls' = CountFinish
        ELSE /\ mi' = m
             /\ UNCHANGED <<calls, finishCalls>>
  /\ UNCHANGED <<refs, promises>>
  /\ UNCHANGED storeVars
  /\ UNCHANGED goalVars
  /\ UNCHANGED quizVars
  /\ UNCHANGED gdVars

\* The history record finishInterview builds.
MockRecord(currentResults, sessionId) ==
  [ type |-> "mock", sessionId |-> sessionId, scoreRating |-> StringRating,
    topic |-> "", quizType |-> "", questionsAnswered |-> Len(currentResults) ]

\* getMockInterviewOverallFeedback resolved: the report is set and the
\* history record is built with the session id of this moment.
ReportResolves(i) ==
  /\ i \in 1..Len(calls)
  /\ calls[i].kind = "finish"
  /\ calls[i].phase = "report"
  /\ mi' = [mi EXCEPT !.overallFeedback = "report"]
  /\ calls' = [calls EXCEPT ![i] =
       [calls[i] EXCEPT !.phase = "save", !.session = refs.sessionStartTime]]
  /\ UNCHANGED <<refs, promises, finishCalls>>
  /\ UNCHANGED storeVars
  /\ UNCHANGED goalVars
  /\ UNCHANGED quizVars
  /\ UNCHANGED gdVars

\* saveInterviewHistory resolved: the end of finishInterview.
SaveResolves(i) ==
  /\ i \in 1..Len(calls)
  /\ calls[i].kind = "finish"
  /\ calls[i].phase = "save"
  /\ saveInterviewHistory(MockRecord(calls[i].results, calls[i].session))
  /\ mi' = [mi EXCEPT !.isLoading = FALSE]
  /\ calls' = Without(calls, i)
  /\ UNCHANGED <<now, revisions>>
  /\ UNCHANGED <<refs, promises, finishCalls>>
  /\ UNCHANGED goalVars
  /\ UNCHANGED quizVars
  /\ UNCHANGED gdVars

\* The report call or the history write failed: the catch of finishInterview.
FinishFails(i) ==
  /\ i \in 1..Len(calls)
  /\ calls[i].kind = "finish"
  /\ mi' = [mi EXCEPT !.overallFeedback = "error", !.isLoading = FALSE]
  /\ calls' = Without(calls, i)
  /\ UNCHANGED <<refs, promises, finishCalls>>
  /\ UNCHANGED storeVars
  /\ UNCHANGED goalVars
  /\ UNCHANGED quizVars
  /\ UNCHANGED gdVars

\* "Try Another Mock" on the results view.
TryAnotherMock ==
  /\ mi.flow = "results"
  /\ ~mi.isLoading
  /\ mi' = [mi EXCEPT !.flow = "setup"]
  /\ UNCHANGED <<refs, promises, calls, finishCalls>>
  /\ UNCHANGED storeVars
  /\ UNCHANGED goalVars
  /\ UNCHANGED quizVars
  /\ UNCHANGED gdVars

MockInit ==
  /\ mi = MockIdle
  /\ refs = [sessionStartTime |-> 0, backgroundFetchPromise |-> 0]
  /\ promises = <<>>
  /\ calls = <<>>
  /\ finishCalls = [s \in 1..(MaxSessions + 1) |-> 0]

\* --------------------------------------------------------- GroupDiscussion
\* components/GroupDiscussion.tsx: the voice discussion. A handler is a
\* closure over the state of the render that created it; Closure(g) is what
\* the handlers of the render with state g read. Speech synthesis (isSpeaking)
\* only runs inside an AI turn and is left out.
GdTopics == {"topic1", "topic2"}

Closure(g) == [selectedTopic |-> g.selectedTopic, chatLog |-> g.chatLog]

\* The state of the first render, during which the mount effects run.
GdFirstRender ==
  [ flow |-> "loading", isLoading |-> TRUE, error |-> "null",
    selectedTopic |-> None, chatLog |-> <<>>, timeLeft |-> 0,
    isThinking |-> FALSE, isRecording |-> FALSE ]

\* The mounted component: fetchTopics is under way and the speech
\* recognition effect has set recognition.onresult to the handler of the
\* first render. timeouts are the handleAiTurn closures scheduled with
\* setTimeout; utterances and turnCalls count (for the properties only) the
\* recognized utterances and the orchestrateGdTurn calls.
GdInit ==
  gd = [ state |-> GdFirstRender, pending |-> "topics",
         onresult |-> Closure(GdFirstRender), timeouts |-> <<>>,
         utterances |-> 0, turnCalls |-> 0 ]

\* generateGdTopics resolved: the rest of fetchTopics.
FetchTopicsResolves ==
  /\ gd.pending = "topics"
  /\ gd' = [gd EXCEPT !.pending = "none", !.state.flow = "setup",
                      !.state.isLoading = FALSE]
  /\ UNCHANGED storeVars
  /\ UNCHANGED goalVars
  /\ UNCHANGED mockVars
  /\ UNCHANGED quizVars

\* generateGdTopics rejected: the catch of fetchTopics.
FetchTopicsFails ==
  /\ gd.pending = "topics"
  /\ gd' = [gd EXCEPT !.pending = "none", !.state.error = "topic",
                      !.state.isLoading = FALSE]
  /\ UNCHANGED storeVars
  /\ UNCHANGED goalVars
  /\ UNCHANGED mockVars
  /\ UNCHANGED quizVars

\* 'Try Again' on the error view: fetchTopics up to its await.
TryAgain ==
  /\ gd.pending = "none"
  /\ ~gd.state.isLoading
  /\ gd.state.flow # "loading"
  /\ gd.state.error # "null"
  /\ gd' = [gd EXCEPT !.pending = "topics", !.state.flow = "loading",
                      !.state.error = "null", !.state.selectedTopic = None]
  /\ UNCHANGED storeVars
  /\ UNCHANGED goalVars
  /\ UNCHANGED mockVars
  /\ UNCHANGED quizVars

\* The view of a flow is shown: no spinner and no error view.
GdShown(g, flow) ==
  /\ ~g.isLoading
  /\ g.error = "null"
  /\ g.flow = flow

\* A topic card is clicked.
SelectTopic(t) ==
  /\ GdShown(gd.state, "setup")
  /\ gd.pending = "none"
  /\ gd' = [gd EXCEPT !.state.selectedTopic = Some(t)]
  /\ UNCHANGED storeVars
  /\ UNCHANGED goalVars
  /\ UNCHANGED mockVars
  /\ UNCHANGED quizVars

\* handleStartDiscussion up to the await of generateGdOpeningStatement.
HandleStartDiscussion ==
  /\ GdShown(gd.state, "setup")
  /\ gd.pending = "none"
  /\ gd.state.selectedTopic # None
  /\ gd' = [gd EXCEPT !.pending = "opening", !.state.timeLeft = GdSeconds,
                      !.state.chatLog = <<>>, !.state.flow = "active",
                      !.state.isThinking = TRUE]
  /\ UNCHANGED storeVars
  /\ UNCHANGED goalVars
  /\ UNCHANGED mockVars
  /\ UNCHANGED quizVars

\* The opening statement arrived.
OpeningResolves ==
  /\ gd.pending = "opening"
  /\ gd' = [gd EXCEPT !.pending = "none", !.state.chatLog = <<"Moderator">>,
                      !.state.isThinking = FALSE]
  /\ UNCHANGED storeVars
  /\ UNCHANGED goalVars
  /\ UNCHANGED mockVars
  /\ UNCHANGED quizVars

\* generateGdOpeningStatement rejected: catch and finally.
OpeningFails ==
  /\ gd.pending = "opening"
  /\ gd' = [gd EXCEPT !.pending = "none", !.state.error = "start",
                      !.state.flow = "setup", !.state.isThinking = FALSE]
  /\ UNCHANGED storeVars
  /\ UNCHANGED goalVars
  /\ UNCHANGED mockVars
  /\ UNCHANGED quizVars

\* toggleRecording: the microphone button starts the recognizer (or stops
\* it: its onend handler then clears isRecording).
ToggleRecording ==
  /\ GdShown(gd.state, "active")
  /\ gd.state.isRecording \/ ~gd.state.isThinking
  /\ gd' = [gd EXCEPT !.state.isRecording = ~@]
  /\ UNCHANGED storeVars
  /\ UNCHANGED goalVars
  /\ UNCHANGED mockVars
  /\ UNCHANGED quizVars

\* handleUserMessage(transcript) of a render: the message is appended with
\* a functional update and handleAiTurn of the same render is scheduled.
handleUserMessage(g, c) ==
  [g EXCEPT !.state.chatLog = Append(@, "You"),
            !.timeouts = Append(@, c)]

\* The recognizer delivers a transcript: recognition.onresult, the handler
\* set by the mount effect, runs, and then onend.
OnResult ==
  /\ gd.state.isRecording
  /\ gd.utterances < MaxUtterances
  /\ gd' = [handleUserMessage(gd, gd.onresult) EXCEPT
               !.state.isRecording = FALSE, !.utterances = @ + 1]
  /\ UNCHANGED storeVars
  /\ UNCHANGED goalVars
  /\ UNCHANGED mockVars
  /\ UNCHANGED quizVars

\* handleAiTurn of a render with closure c, up to the await of
\* orchestrateGdTurn(selectedTopic, history, ai1Name, ai2Name).
handleAiTurn(g, c) ==
  IF c.selectedTopic = None
  THEN g
  ELSE [g EXCEPT !.state.isThinking = TRUE, !.turnCalls = @ + 1]

\* The 500 ms of a scheduled handleAiTurn have passed.
AiTurnTimeout ==
  /\ gd.timeouts # <<>>
  /\ gd' = handleAiTurn([gd EXCEPT !.timeouts = Tail(@)], Head(gd.timeouts))
  /\ UNCHANGED storeVars
  /\ UNCHANGED goalVars
  /\ UNCHANGED mockVars
  /\ UNCHANGED quizVars

\* One second passes on the discussion timer; at 0 the timer effect ends
\* the discussion and stops the recognizer.
GdTimerTick ==
  /\ gd.state.flow = "active"
  /\ gd.state.timeLeft > 0
  /\ gd' = IF gd.state.timeLeft = 1
           THEN [gd EXCEPT !.state.timeLeft = 0, !.state.flow = "finished",
                           !.state.isRecording = FALSE]
           ELSE [gd EXCEPT !.state.timeLeft = @ - 1]
  /\ UNCHANGED storeVars
  /\ UNCHANGED goalVars
  /\ UNCHANGED mockVars
  /\ UNCHANGED quizVars

\* ------------------------------------------------------------ AptitudePrep
\* components/AptitudePrep.tsx: the quiz and its resume cache. Each handler
\* is one step together with the re-render it causes; the cleanup of the
\* saveQuizProgress effect runs in that re-render with the values of the
\* render before it.
JNull == [t |-> "null", v |-> ""]
JString(s) == [t |-> "string", v |-> s]
JNumber(n) == [t |-> "number", v |-> n]

\* JSON.stringify of a value that is null or a string / null or a number.
StringifyString(x) == IF x = None THEN JNull ELSE JString(x[1])
StringifyNumber(x) == IF x = None THEN JNull ELSE JNumber(x[1])

\* JSON.parse of such a value.
ParseValue(j) == IF j.t = "null" THEN None ELSE Some(j.v)

\* JSON.stringify(quizToSave)
JSONstringify(q) ==
  [ questions |-> [i \in 1..Len(q.questions) |->
       [ id |-> JNumber(q.questions[i].id),
         correctAnswer |-> JString(q.questions[i].correctAnswer) ]],
    userAnswers |-> [i \in 1..Len(q.userAnswers) |-> StringifyString(q.userAnswers[i])],
    currentQuestionIndex |-> JNumber(q.currentQuestionIndex),
    timeLeft |-> StringifyNumber(q.timeLeft),
    topic |-> JString(q.topic),
    selectedDifficulty |-> JString(q.selectedDifficulty),
    numQuestions |-> JNumber(q.numQuestions),
    timePerQuestion |-> [i \in 1..Len(q.timePerQuestion) |-> JNumber(q.timePerQuestion[i])] ]

\* JSON.parse(savedQuizJSON)
JSONparse(j) ==
  [ questions |-> [i \in 1..Len(j.questions) |->
       [ id |-> j.questions[i].id.v, correctAnswer |-> j.questions[i].correctAnswer.v ]],
    userAnswers |-> [i \in 1..Len(j.userAnswers) |-> ParseValue(j.userAnswers[i])],
    currentQuestionIndex |-> j.currentQuestionIndex.v,
    timeLeft |-> ParseValue(j.timeLeft),
    topic |-> j.topic.v,
    selectedDifficulty |-> j.selectedDifficulty.v,
    numQuestions |-> j.numQuestions.v,
    timePerQuestion |-> [i \in 1..Len(j.timePerQuestion) |-> j.timePerQuestion[i].v] ]

\* The flows of a component that is not mounted: never opened or left,
\* left by the confirmed stop, page closed.
Unmounted == {"unmounted", "stopped", "closed"}

\* The state of a freshly mounted AptitudePrep (numQuestions: the source's
\* default of 5, scaled).
FreshQuiz ==
  [ flow |-> "loading", pending |-> "none",
    questions |-> <<>>, currentQuestionIndex |-> 0, userAnswers |-> <<>>,
    timeLeft |-> None, timePerQuestion |-> <<>>, questionStartTime |-> 0,
    quizTopic |-> "", quizType |-> "Practice", selectedDifficulty |-> "Medium",
    numQuestions |-> QuizSize, savedQuizState |-> None,
    isLoading |-> FALSE, error |-> "null", result |-> None ]

Gone(flow) == [FreshQuiz EXCEPT !.flow = flow]

\* The questions generateAptitudeQuestions returns: the i-th has id i and
\* the correct option "A".
FetchedQuestions(count) == [i \in 1..count |-> [id |-> i, correctAnswer |-> "A"]]

\* newTimes of recordTime and of saveQuizProgress, at instant t
NewTimes(a, t) ==
  IF a.currentQuestionIndex < Len(a.timePerQuestion)
  THEN [a.timePerQuestion EXCEPT ![a.currentQuestionIndex + 1] = @ + (t - a.questionStartTime)]
  ELSE a.timePerQuestion

\* quizToSave of saveQuizProgress
quizToSave(a, t) ==
  [ questions |-> a.questions, userAnswers |-> a.userAnswers,
    currentQuestionIndex |-> a.currentQuestionIndex, timeLeft |-> a.timeLeft,
    topic |-> a.quizTopic, selectedDifficulty |-> a.selectedDifficulty,
    numQuestions |-> a.numQuestions, timePerQuestion |-> NewTimes(a, t) ]

\* A storage slot entry: the JSON text, and (for the properties only) the
\* component state it was taken from.
Stored(a, t) == [json |-> JSONstringify(quizToSave(a, t)), from |-> a]

\* saveQuizProgress with the values of render a, run at instant t on a slot.
saveQuizProgress(a, slot, t) ==
  IF a.flow = "active" /\ Len(a.questions) > 0 THEN Some(Stored(a, t)) ELSE slot

\* The dependency list of the saveQuizProgress effect.
Deps(a) ==
  << a.flow, a.questions, a.userAnswers, a.currentQuestionIndex, a.timeLeft,
     a.quizTopic, a.selectedDifficulty, a.numQuestions, a.timePerQuestion,
     a.questionStartTime >>

\* The slot after the re-render from render old to render new: when a
\* dependency changed, the cleanup of the old effect runs saveQuizProgress.
Rerender(old, new, slot, t) ==
  IF Deps(old) # Deps(new) THEN saveQuizProgress(old, slot, t) ELSE slot

\* hasUserCompletedDiagnostic
hasUserCompletedDiagnostic(hist) ==
  \E i \in 1..Len(hist) : hist[i].type = "aptitude" /\ hist[i].quizType = "Diagnostic"

\* The component is opened: the mount effect reads the slot.
MountAptitudePrep ==
  /\ ap.flow \in Unmounted
  /\ ap' = IF localStorage # None
           THEN [FreshQuiz EXCEPT
                   !.savedQuizState =
                      Some([value |-> JSONparse(localStorage[1].json),
                            from |-> localStorage[1].from]),
                   !.flow = "setup"]
           ELSE [FreshQuiz EXCEPT !.pending = "check"]
  /\ UNCHANGED localStorage
  /\ UNCHANGED quizRecords
  /\ UNCHANGED storeVars
  /\ UNCHANGED goalVars
  /\ UNCHANGED mockVars
  /\ UNCHANGED gdVars

\* hasUserCompletedDiagnostic resolved (mount effect: pending "check",
\* resetQuiz: pending "recheck").
CheckResolves ==
  /\ ap.pending \in {"check", "recheck"}
  /\ ap' = [ap EXCEPT !.pending = "none",
              !.flow = IF hasUserCompletedDiagnostic(history) THEN "setup" ELSE "prompt"]
  /\ localStorage' = Rerender(ap, ap', localStorage, now)
  /\ UNCHANGED quizRecords
  /\ UNCHANGED storeVars
  /\ UNCHANGED goalVars
  /\ UNCHANGED mockVars
  /\ UNCHANGED gdVars

\* hasUserCompletedDiagnostic rejected in the mount effect: the catch block
\* falls back to the setup view.
CheckFails ==
  /\ ap.pending = "check"
  /\ ap' = [ap EXCEPT !.pending = "none", !.flow = "setup"]
  /\ localStorage' = Rerender(ap, ap', localStorage, now)
  /\ UNCHANGED quizRecords
  /\ UNCHANGED storeVars
  /\ UNCHANGED goalVars
  /\ UNCHANGED mockVars
  /\ UNCHANGED gdVars

\* hasUserCompletedDiagnostic rejected in check() of resetQuiz, which has no
\* catch: the rejection is unhandled and no state is set.
ResetCheckFails ==
  /\ ap.pending = "recheck"
  /\ ap' = [ap EXCEPT !.pending = "none"]
  /\ localStorage' = Rerender(ap, ap', localStorage, now)
  /\ UNCHANGED quizRecords
  /\ UNCHANGED storeVars
  /\ UNCHANGED goalVars
  /\ UNCHANGED mockVars
  /\ UNCHANGED gdVars

\* "Skip" on the diagnostic prompt.
SkipDiagnostic ==
  /\ ap.flow = "prompt"
  /\ ~ap.isLoading
  /\ ap.error = "null"
  /\ ap' = [ap EXCEPT !.flow = "setup"]
  /\ localStorage' = Rerender(ap, ap', localStorage, now)
  /\ UNCHANGED quizRecords
  /\ UNCHANGED storeVars
  /\ UNCHANGED goalVars
  /\ UNCHANGED mockVars
  /\ UNCHANGED gdVars

\* startQuiz up to the await of generateAptitudeQuestions.
StartQuiz(type) ==
  /\ Len(history) < MaxHistory
  /\ ~ap.isLoading
  /\ ap.error = "null"
  /\ ap.pending = "none"
  /\ \/ ap.flow = "prompt" /\ type = "Diagnostic"
     \/ ap.flow = "setup" /\ type = "Practice"
  /\ ap' = [ap EXCEPT !.quizType = type, !.savedQuizState = None, !.isLoading = TRUE,
              !.result = None,
              !.quizTopic = IF type = "Diagnostic" THEN "Diagnostic Test" ELSE QUANTITATIVE,
              !.pending = "generate"]
  /\ localStorage' = Rerender(ap, ap', None, now)
  /\ UNCHANGED quizRecords
  /\ UNCHANGED storeVars
  /\ UNCHANGED goalVars
  /\ UNCHANGED mockVars
  /\ UNCHANGED gdVars

\* generateAptitudeQuestions resolved with questions.
StartQuizResolves ==
  /\ ap.pending = "generate"
  /\ ap' = [ap EXCEPT
       !.pending = "none",
       !.questions = FetchedQuestions(QuizSize),
       !.currentQuestionIndex = 0,
       !.userAnswers = Fill(QuizSize, None),
       !.timePerQuestion = Fill(QuizSize, 0),
       !.questionStartTime = now,
       !.timeLeft = Some(QuizSeconds),
       !.flow = "active", !.isLoading = FALSE]
  /\ localStorage' = Rerender(ap, ap', localStorage, now)
  /\ quizRecords' = 0
  /\ UNCHANGED storeVars
  /\ UNCHANGED goalVars
  /\ UNCHANGED mockVars
  /\ UNCHANGED gdVars

\* generateAptitudeQuestions failed or returned no question.
StartQuizFails ==
  /\ ap.pending = "generate"
  /\ ap' = [ap EXCEPT !.pending = "none", !.error = "fetch", !.flow = "setup",
                      !.isLoading = FALSE]
  /\ localStorage' = Rerender(ap, ap', localStorage, now)
  /\ UNCHANGED quizRecords
  /\ UNCHANGED storeVars
  /\ UNCHANGED goalVars
  /\ UNCHANGED mockVars
  /\ UNCHANGED gdVars

\* A resume that goes back to the first question.
ResumeFromStart(a, t) ==
  LET s == a.savedQuizState[1].value
  IN [a EXCEPT !.questions = s.questions, !.userAnswers = s.userAnswers,
        !.currentQuestionIndex = 0, !.timeLeft = s.timeLeft,
        !.quizTopic = s.topic, !.selectedDifficulty = s.selectedDifficulty,
        !.numQuestions = s.numQuestions, !.timePerQuestion = s.timePerQuestion,
        !.questionStartTime = t, !.flow = "active", !.savedQuizState = None]

\* handleResumeQuiz: the state it sets, at instant t.
ResumedState(a, t) ==
  LET s == a.savedQuizState[1].value
  IN [a EXCEPT !.questions = s.questions, !.userAnswers = s.userAnswers,
        !.currentQuestionIndex = s.currentQuestionIndex, !.timeLeft = s.timeLeft,
        !.quizTopic = s.topic, !.selectedDifficulty = s.selectedDifficulty,
        !.numQuestions = s.numQuestions, !.timePerQuestion = s.timePerQuestion,
        !.questionStartTime = t, !.flow = "active", !.savedQuizState = None]

\* handleResumeQuiz, taken while the history holds fewer than cap records.
ResumeQuiz(cap) ==
  /\ Len(history) < cap
  /\ ap.flow = "setup"
  /\ ~ap.isLoading
  /\ ap.error = "null"
  /\ ap.savedQuizState # None
  /\ ap' = ResumedState(ap, now)
  /\ localStorage' = Rerender(ap, ap', localStorage, now)
  /\ UNCHANGED quizRecords
  /\ UNCHANGED storeVars
  /\ UNCHANGED goalVars
  /\ UNCHANGED mockVars
  /\ UNCHANGED gdVars

\* "Resume Quiz" before the user's history is full ...
HandleResumeQuiz == ResumeQuiz(MaxHistory)

\* ... and with one more record allowed, so that a quiz can be resumed
\* after a record was saved.
ResumeSavedQuiz == ResumeQuiz(MaxHistory + 1)

\* The quiz view takes clicks: a question is shown and the timer effect has
\* no forced submit to run.
QuizShown(a) ==
  /\ a.flow = "active"
  /\ ~a.isLoading
  /\ a.error = "null"
  /\ a.timeLeft # Some(0)
  /\ a.currentQuestionIndex < Len(a.questions)

\* handleAnswer (the user answers a question once)
HandleAnswer(answer) ==
  /\ QuizShown(ap)
  /\ ap.userAnswers[ap.currentQuestionIndex + 1] = None
  /\ ap' = [ap EXCEPT !.userAnswers[ap.currentQuestionIndex + 1] = Some(answer)]
  /\ localStorage' = Rerender(ap, ap', localStorage, now)
  /\ UNCHANGED quizRecords
  /\ UNCHANGED storeVars
  /\ UNCHANGED goalVars
  /\ UNCHANGED mockVars
  /\ UNCHANGED gdVars

\* recordTime
recordTime(a, t) == [a EXCEPT !.timePerQuestion = NewTimes(a, t), !.questionStartTime = t]

\* A result in which an unanswered question counts as correct.
CountUnansweredAsCorrect(a, finalAnswers) ==
  LET correct == Cardinality({i \in 1..Len(a.questions) :
                     \/ i > Len(finalAnswers)
                     \/ finalAnswers[i] = None
                     \/ finalAnswers[i] = Some(a.questions[i].correctAnswer)})
  IN  [ score |-> (correct * Percent(100)) \div Len(a.questions),
        total |-> Len(a.questions),
        correctAnswers |-> correct,
        incorrectAnswers |-> Len(a.questions) - correct ]

\* quizResultData of calculateResult. The score (correct / n) * 100 is kept
\* in sixtieths of a percent, which is exact for up to six questions.
quizResultData(a, finalAnswers) ==
  LET correct == Cardinality({i \in 1..Len(a.questions) :
                     i <= Len(finalAnswers)
                       /\ finalAnswers[i] = Some(a.questions[i].correctAnswer)})
  IN  [ score |-> (correct * Percent(100)) \div Len(a.questions),
        total |-> Len(a.questions),
        correctAnswers |-> correct,
        incorrectAnswers |-> Len(a.questions) - correct ]

\* The scoreRating of the history record, of which the properties of the
\* history use the integer part.
WholePercent(score) == score \div 60

\* handleNextQuestion on its submitting branch, with calculateResult up to
\* its await: removeItem is in the action, here are the state updates.
Submitted(a, t) ==
  [recordTime(a, t) EXCEPT !.timeLeft = Some(0), !.savedQuizState = None,
      !.result = Some(quizResultData(a, a.userAnswers)), !.flow = "results",
      !.pending = "save"]

\* handleNextQuestion() on a question that is not the last.
HandleNextQuestion ==
  /\ QuizShown(ap)
  /\ ap.currentQuestionIndex < Len(ap.questions) - 1
  /\ ap' = [recordTime(ap, now) EXCEPT !.currentQuestionIndex = @ + 1]
  /\ localStorage' = Rerender(ap, ap', localStorage, now)
  /\ UNCHANGED quizRecords
  /\ UNCHANGED storeVars
  /\ UNCHANGED goalVars
  /\ UNCHANGED mockVars
  /\ UNCHANGED gdVars

\* handleNextQuestion() on the last question: the quiz is submitted.
SubmitQuiz ==
  /\ QuizShown(ap)
  /\ ap.currentQuestionIndex = Len(ap.questions) - 1
  /\ ap' = Submitted(ap, now)
  /\ localStorage' = Rerender(ap, ap', None, now)
  /\ UNCHANGED quizRecords
  /\ UNCHANGED storeVars
  /\ UNCHANGED goalVars
  /\ UNCHANGED mockVars
  /\ UNCHANGED gdVars

\* handlePreviousQuestion
HandlePreviousQuestion ==
  /\ QuizShown(ap)
  /\ ap.currentQuestionIndex > 0
  /\ ap' = [recordTime(ap, now) EXCEPT !.currentQuestionIndex = @ - 1]
  /\ localStorage' = Rerender(ap, ap', localStorage, now)
  /\ UNCHANGED quizRecords
  /\ UNCHANGED storeVars
  /\ UNCHANGED goalVars
  /\ UNCHANGED mockVars
  /\ UNCHANGED gdVars

\* One second passes on the quiz timer.
QuizTimerTick ==
  /\ ap.flow = "active"
  /\ ap.timeLeft # None
  /\ ap.timeLeft[1] > 0
  /\ ap' = [ap EXCEPT !.timeLeft = Some(ap.timeLeft[1] - 1)]
  /\ localStorage' = Rerender(ap, ap', localStorage, now)
  /\ UNCHANGED quizRecords
  /\ UNCHANGED storeVars
  /\ UNCHANGED goalVars
  /\ UNCHANGED mockVars
  /\ UNCHANGED gdVars

\* The timer effect of a render with timeLeft 0: handleNextQuestion(true).
ForceSubmit ==
  /\ ap.flow = "active"
  /\ ap.timeLeft = Some(0)
  /\ ap' = Submitted(ap, now)
  /\ localStorage' = Rerender(ap, ap', None, now)
  /\ UNCHANGED quizRecords
  /\ UNCHANGED storeVars
  /\ UNCHANGED goalVars
  /\ UNCHANGED mockVars
  /\ UNCHANGED gdVars

\* The rest of calculateResult after saveInterviewHistory resolved (written
\* is TRUE) or failed.
SaveResult(written) ==
  /\ ap.pending = "save"
  /\ IF written
     THEN saveInterviewHistory(
            AptitudeRecord(ap.quizTopic, WholePercent(ap.result[1].score),
                           ap.result[1].total, ap.quizType))
     ELSE UNCHANGED <<profile, history, badges>>
  /\ ap' = [ap EXCEPT !.pending = "none",
              !.selectedDifficulty =
                 IF ap.result[1].score < Percent(40) THEN "Easy"
                 ELSE IF ap.result[1].score > Percent(80) THEN "Hard" ELSE "Medium"]
  /\ localStorage' = Rerender(ap, ap', localStorage, now)
  /\ quizRecords' = IF written THEN quizRecords + 1 ELSE quizRecords
  /\ UNCHANGED <<now, revisions>>
  /\ UNCHANGED goalVars
  /\ UNCHANGED mockVars
  /\ UNCHANGED gdVars

\* resetQuiz ("Take Another Quiz", "Try Again")
ResetQuiz ==
  /\ ap.flow \notin Unmounted
  /\ ~ap.isLoading
  /\ ap.flow = "results" \/ ap.error # "null"
  /\ ap.pending = "none"
  /\ ap' = [ap EXCEPT !.savedQuizState = None, !.flow = "loading", !.questions = <<>>,
                      !.result = None, !.error = "null", !.pending = "recheck"]
  /\ localStorage' = Rerender(ap, ap', None, now)
  /\ UNCHANGED quizRecords
  /\ UNCHANGED storeVars
  /\ UNCHANGED goalVars
  /\ UNCHANGED mockVars
  /\ UNCHANGED gdVars

\* confirmStopQuiz: the slot is cleared and the navigation unmounts the
\* component, which runs the cleanup of the saveQuizProgress effect.
ConfirmStopQuiz ==
  /\ QuizShown(ap)
  /\ ap' = Gone("stopped")
  /\ localStorage' = saveQuizProgress(ap, None, now)
  /\ UNCHANGED quizRecords
  /\ UNCHANGED storeVars
  /\ UNCHANGED goalVars
  /\ UNCHANGED mockVars
  /\ UNCHANGED gdVars

\* The page is closed or reloaded: the beforeunload listener runs.
ClosePage ==
  /\ ap.flow \notin Unmounted
  /\ ap' = Gone("closed")
  /\ localStorage' = saveQuizProgress(ap, localStorage, now)
  /\ UNCHANGED quizRecords
  /\ UNCHANGED storeVars
  /\ UNCHANGED goalVars
  /\ UNCHANGED mockVars
  /\ UNCHANGED gdVars

\* The user leaves for another feature while no quiz is active.
LeaveAptitudePrep ==
  /\ ap.flow \in {"prompt", "setup", "results"}
  /\ ap.pending = "none"
  /\ ap' = Gone("unmounted")
  /\ localStorage' = saveQuizProgress(ap, localStorage, now)
  /\ UNCHANGED quizRecords
  /\ UNCHANGED storeVars
  /\ UNCHANGED goalVars
  /\ UNCHANGED mockVars
  /\ UNCHANGED gdVars

\* Time passes between two visits of the component.
TimePasses ==
  /\ ap.flow \in Unmounted
  /\ Tick

QuizInit ==
  /\ ap = Gone("unmounted")
  /\ localStorage = None
  /\ quizRecords = 0

\* Another user's active goal is in the collection from the start.
GoalsInit ==
  /\ goals = << [ userId |-> OtherUid, topic |-> VERBAL_ABILITY, targetAccuracy |-> 80,
                  isActive |-> TRUE, initialAccuracy |-> 0, currentAccuracy |-> 0 ] >>
  /\ dash = [s \in Tabs |-> IdleDash]

\* The stored documents of a user when the session starts: a new user, a
\* user whose profile write failed after the document was created, or a
\* user who tagged questions on six consecutive days up to yesterday.
ProfileSeeds ==
  { NoProfile,
    [exists |-> TRUE, streak |-> None, lastActivityDate |-> None],
    [exists |-> TRUE, streak |-> Some(6), lastActivityDate |-> Some(2)] }

StoreInit ==
  /\ now = 4
  /\ profile \in ProfileSeeds
  /\ history = <<>>
  /\ revisions \in {0, 9}
  /\ badges = [b \in BadgeIds |-> NoDoc]

Init == StoreInit /\ GoalsInit /\ MockInit /\ QuizInit /\ GdInit

Next ==
  \/ \E h \in HistoryInputs : SaveInterviewHistory(h)
  \/ TagQuestionForRevision
  \/ UntagQuestionForRevision
  \/ Tick

Spec == Init /\ [][Next]_vars

\* The progress engine of a returning user: the sessions of yesterday are
\* in the collection, with the profile and the badges their saves left.
LongInit ==
  /\ now = 4
  /\ \E a \in 0..MaxSeedAptitude : \E m \in {0, MaxSeedOthers} : ReturningUser(a, m, now)
  /\ revisions = 0
  /\ GoalsInit
  /\ MockInit
  /\ GdInit
  /\ QuizInit

LongNext ==
  \/ \E h \in HistoryInputs : SaveInterviewHistory(h)
  \/ Tick

SpecLong == LongInit /\ [][LongNext]_vars

\* The goal tracker on its own: two tabs of one user, new or returning after
\* a day of quizzes, and the history saves the accuracy is computed from.
GoalsSpecInit ==
  /\ now = 4
  /\ \E a \in {0, SeedQuizzes} : ReturningUser(a, 0, now)
  /\ revisions = 0
  /\ GoalsInit
  /\ MockInit
  /\ GdInit
  /\ QuizInit

GoalsNext ==
  \/ \E s \in Tabs : FetchData(s)
  \/ \E s \in Tabs : \E extracted, parsedTopic \in {QUANTITATIVE, LOGICAL_REASONING} :
        HandleSave(s, extracted, parsedTopic, 80)
  \/ \E s \in Tabs : HandleSaveFails(s)
  \/ \E s \in Tabs : CommitGoal(s)
  \/ \E s \in Tabs : Remount(s)
  \/ \E h \in HistoryInputs : SaveInterviewHistory(h)

SpecGoals == GoalsSpecInit /\ [][GoalsNext]_vars

\* The service as the Review Hub, the practice components and the Dashboard
\* use it: history, revision questions and goals together, with one
\* Dashboard open.
ServiceNext ==
  \/ SaveInterviewHistory(OtherRecord("mock", StringRating))
  \/ TagQuestionForRevision
  \/ UntagQuestionForRevision
  \/ Tick
  \/ FetchData("tab1")
  \/ HandleSave("tab1", QUANTITATIVE, QUANTITATIVE, 80)
  \/ CommitGoal("tab1")

SpecService == Init /\ [][ServiceNext]_vars

\* The mock interview on its own: one mounted MockInterview of a new user.
MockSpecInit ==
  /\ now = 4
  /\ profile = NoProfile
  /\ history = <<>>
  /\ revisions = 0
  /\ badges = [b \in BadgeIds |-> NoDoc]
  /\ GoalsInit
  /\ MockInit
  /\ GdInit
  /\ QuizInit

MockNext ==
  \/ StartInterview
  \/ \E i \in 1..Len(calls) : StartResolves(i)
  \/ \E i \in 1..Len(calls) : StartFails(i)
  \/ \E p \in 1..Len(promises) : BackgroundFetchResolves(p)
  \/ \E p \in 1..Len(promises) : BackgroundFetchRejects(p)
  \/ \E a \in {"A", "B", "text"} : AnswerQuestion(a)
  \/ NextQuestion
  \/ ProceedToNext
  \/ \E i \in 1..Len(calls) : FeedbackResolves(i)
  \/ \E i \in 1..Len(calls) : FeedbackFails(i)
  \/ \E i \in 1..Len(calls) : NextRound(i)
  \/ \E i \in 1..Len(calls) : NextRoundFails(i)
  \/ TimerTick
  \/ \E i \in 1..Len(calls) : ReportResolves(i)
  \/ \E i \in 1..Len(calls) : SaveResolves(i)
  \/ \E i \in 1..Len(calls) : FinishFails(i)
  \/ TryAnotherMock

SpecMock == MockSpecInit /\ [][MockNext]_vars

\* The mock interview with generators that return any number of questions
\* from one up to the number asked for. The steps of a view whose question
\* index is past the end of its list are not followed.
ShortNext ==
  \/ StartInterview
  \/ \E i \in 1..Len(calls) : \E n \in 1..RoundSize : StartReturns(i, n)
  \/ \E i \in 1..Len(calls) : StartFails(i)
  \/ \E p \in 1..Len(promises) : \E nt, nh \in 1..RoundSize :
        BackgroundFetchReturns(p, nt, nh)
  \/ \E p \in 1..Len(promises) : BackgroundFetchRejects(p)
  \/ \E a \in {"A", "B", "text"} : AnswerQuestion(a)
  \/ NextQuestion
  \/ ProceedToNext
  \/ \E i \in 1..Len(calls) : FeedbackResolves(i)
  \/ \E i \in 1..Len(calls) : FeedbackFails(i)
  \/ \E i \in 1..Len(calls) : NextRound(i)
  \/ \E i \in 1..Len(calls) : NextRoundFails(i)
  \/ TimerTick
  \/ \E i \in 1..Len(calls) : ReportResolves(i)
  \/ \E i \in 1..Len(calls) : SaveResolves(i)
  \/ \E i \in 1..Len(calls) : FinishFails(i)
  \/ TryAnotherMock

SpecShort == MockSpecInit /\ [][ShortNext]_vars

\* The mock interview with a session started after a finalized one; the
\* aptitude generator and the feedback calls succeed, the background fetch
\* may fail.
RestartNext ==
  \/ RestartInterview
  \/ \E i \in 1..Len(calls) : StartResolves(i)
  \/ \E p \in 1..Len(promises) : BackgroundFetchResolves(p)
  \/ \E p \in 1..Len(promises) : BackgroundFetchRejects(p)
  \/ \E a \in {"A", "text"} : AnswerQuestion(a)
  \/ NextQuestion
  \/ ProceedToNext
  \/ \E i \in 1..Len(calls) : FeedbackResolves(i)
  \/ \E i \in 1..Len(calls) : NextRound(i)
  \/ \E i \in 1..Len(calls) : NextRoundFails(i)
  \/ TimerTick
  \/ \E i \in 1..Len(calls) : ReportResolves(i)
  \/ \E i \in 1..Len(calls) : SaveResolves(i)
  \/ \E i \in 1..Len(calls) : FinishFails(i)
  \/ TryAnotherMock

SpecRestart == MockSpecInit /\ [][RestartNext]_vars

\* The group discussion on its own: one mounted GroupDiscussion of a new
\* user.
GdNext ==
  \/ FetchTopicsResolves
  \/ FetchTopicsFails
  \/ TryAgain
  \/ \E t \in GdTopics : SelectTopic(t)
  \/ HandleStartDiscussion
  \/ OpeningResolves
  \/ OpeningFails
  \/ ToggleRecording
  \/ OnResult
  \/ AiTurnTimeout
  \/ GdTimerTick

SpecGd == MockSpecInit /\ [][GdNext]_vars

\* The aptitude quiz on its own: one browser of a new user, who opens and
\* leaves AptitudePrep, closes the page and comes back; it is the morning
\* of the last day followed.
QuizSpecInit ==
  /\ now = 2 * MaxDay
  /\ profile = NoProfile
  /\ history = <<>>
  /\ revisions = 0
  /\ badges = [b \in BadgeIds |-> NoDoc]
  /\ GoalsInit
  /\ MockInit
  /\ GdInit
  /\ QuizInit

QuizNext ==
  \/ MountAptitudePrep
  \/ CheckResolves
  \/ CheckFails
  \/ ResetCheckFails
  \/ SkipDiagnostic
  \/ \E type \in {"Practice", "Diagnostic"} : StartQuiz(type)
  \/ StartQuizResolves
  \/ StartQuizFails
  \/ HandleResumeQuiz
  \/ \E answer \in {"A", "B"} : HandleAnswer(answer)
  \/ HandleNextQuestion
  \/ SubmitQuiz
  \/ HandlePreviousQuestion
  \/ QuizTimerTick
  \/ ForceSubmit
  \/ \E written \in BOOLEAN : SaveResult(written)
  \/ ResetQuiz
  \/ ConfirmStopQuiz
  \/ ClosePage
  \/ LeaveAptitudePrep
  \/ TimePasses

SpecQuiz == QuizSpecInit /\ [][QuizNext]_vars

\* The aptitude quiz with the resume of a snapshot left after a save.
ResumeNext ==
  \/ MountAptitudePrep
  \/ CheckResolves
  \/ CheckFails
  \/ ResetCheckFails
  \/ SkipDiagnostic
  \/ \E type \in {"Practice", "Diagnostic"} : StartQuiz(type)
  \/ StartQuizResolves
  \/ StartQuizFails
  \/ ResumeSavedQuiz
  \/ \E answer \in {"A", "B"} : HandleAnswer(answer)
  \/ HandleNextQuestion
  \/ SubmitQuiz
  \/ HandlePreviousQuestion
  \/ QuizTimerTick
  \/ ForceSubmit
  \/ \E written \in BOOLEAN : SaveResult(written)
  \/ ResetQuiz
  \/ ConfirmStopQuiz
  \/ ClosePage
  \/ LeaveAptitudePrep
  \/ TimePasses

SpecResume == QuizSpecInit /\ [][ResumeNext]_vars

\* The scoring of a quiz on its own: the user answered some of the n
\* questions, closed the page on the last one with a second left, came back
\* and resumed; the quiz is then submitted by "Finish" or by the timer.
LastQuestion(n, answers, t) ==
  [FreshQuiz EXCEPT !.flow = "active", !.questions = FetchedQuestions(n),
     !.userAnswers = answers, !.currentQuestionIndex = n - 1, !.timeLeft = Some(1),
     !.timePerQuestion = Fill(n, 0), !.questionStartTime = t,
     !.quizTopic = QUANTITATIVE, !.numQuestions = n]

ScoreInit ==
  /\ now = 2 * MaxDay
  /\ profile = NoProfile
  /\ history = <<>>
  /\ revisions = 0
  /\ badges = [b \in BadgeIds |-> NoDoc]
  /\ GoalsInit
  /\ MockInit
  /\ GdInit
  /\ \E n \in 1..MaxQuestions : \E answers \in [1..n -> {None, Some("A"), Some("B")}] :
        LET left == LastQuestion(n, answers, now)
            mounted == [FreshQuiz EXCEPT
                          !.savedQuizState =
                             Some([value |-> JSONparse(Stored(left, now).json),
                                   from |-> left]),
                          !.flow = "setup"]
        IN /\ localStorage = Some(Stored(left, now))
           /\ ap = ResumedState(mounted, now)
  /\ quizRecords = 0

ScoreNext ==
  \/ SubmitQuiz
  \/ QuizTimerTick
  \/ ForceSubmit
  \/ \E written \in BOOLEAN : SaveResult(written)

SpecScore == ScoreInit /\ [][ScoreNext]_vars

\* ------------------------------------------------------ streak properties
\* The stored lastActivityDate falls on today's calendar day.
SameDayAsStored ==
  /\ profile.lastActivityDate # None
  /\ toDateString(profile.lastActivityDate[1]) = toDateString(now)

\* A step that is an activity: a history record or a revision question is added.
ActivityStep == Len(history') = Len(history) + 1 \/ revisions' = revisions + 1

\* C1: while the stored lastActivityDate is on today's calendar day, no step
\* (in particular no history save and no tagging) changes the profile
\* document: the streak is kept and streak/lastActivityDate are not rewritten.
C1_SameDayStreakUnchanged == [][SameDayAsStored => profile' = profile]_vars

\* A record was saved later on the day of the stored lastActivityDate, and
\* the stored instant is still the earlier one.
C1_Witness ==
  /\ SameDayAsStored
  /\ history # <<>>
  /\ history[1].timestamp > profile.lastActivityDate[1]
  /\ toDateString(history[1].timestamp) = toDateString(profile.lastActivityDate[1])

\* C2: an activity on a calendar day other than the stored lastActivityDate
\* stores streak = old streak + 1 when lastActivityDate is the previous
\* calendar day and streak = 1 otherwise (gap, no document, no date), with
\* lastActivityDate = the instant of the activity.
C2_StreakRule ==
  [][ (ActivityStep /\ ~SameDayAsStored) =>
        profile' =
          [ exists |-> TRUE,
            streak |->
              IF /\ profile.lastActivityDate # None
                 /\ toDateString(profile.lastActivityDate[1]) + 1 = toDateString(now)
                THEN Some((IF profile.streak = None THEN 0 ELSE profile.streak[1]) + 1)
                ELSE Some(1),
            lastActivityDate |-> Some(now) ] ]_vars

\* The streak of six that ended yesterday has become seven today.
C2_Witness ==
  /\ profile.streak = Some(7)
  /\ profile.lastActivityDate # None
  /\ toDateString(profile.lastActivityDate[1]) = 2

\* C3: a badge document, once written, stays written with earned = true.
C3_BadgesOnlyGrow ==
  [][ \A b \in BadgeIds :
        badges[b].exists => (badges'[b].exists /\ badges'[b].earned) ]_vars

\* Two badges are held although their rules no longer hold: the streak was
\* reset to 1 and the revision questions are fewer than ten.
C3_Witness ==
  /\ badges["streak-7"].earned
  /\ profile.streak = Some(1)
  /\ badges["revisionist"].earned
  /\ revisions < 10

\* -------------------------------------------------------- goal properties
\* C4: every user has at most one active goal, in every reachable state.
C4_AtMostOneActiveGoal ==
  \A u \in {Uid, OtherUid} : Cardinality(ActiveGoalIds(goals, u)) <= 1

\* C5: a setUserGoal call whose query result is still the set of active goals
\* when its batch commits (no other commit in between) leaves exactly its new
\* goal active, every other document stored, the formerly active ones with
\* isActive = false, and one document more than before.
C5_SetGoalEffect ==
  [][ \A s \in Tabs :
        ( /\ dash[s].pc = "commit"
          /\ dash'[s].pc # "commit"
          /\ dash[s].snapshot = ActiveGoalIds(goals, Uid) ) =>
        /\ Len(goals') = Len(goals) + 1
        /\ goals'[Len(goals')] = dash[s].goal[1]
        /\ ActiveGoalIds(goals', Uid) = {Len(goals')}
        /\ \A i \in 1..Len(goals) :
             goals'[i] = IF goals[i].userId = Uid /\ goals[i].isActive
                           THEN [goals[i] EXCEPT !.isActive = FALSE]
                           ELSE goals[i] ]_vars

\* A goal was replaced: the user has an inactive goal and one active goal,
\* and no call is pending.
C5_Witness ==
  /\ \A s \in Tabs : dash[s].pc # "commit"
  /\ \E i \in 1..Len(goals) : goals[i].userId = Uid /\ ~goals[i].isActive
  /\ Cardinality(ActiveGoalIds(goals, Uid)) = 1

\* ---------------------------------------------- mock interview properties
\* The history records of type 'mock' written with the id of session s.
MockRecordsOf(s) ==
  {i \in 1..Len(history) : history[i].type = "mock" /\ history[i].sessionId = s}

\* C6: in every session finishInterview is invoked at most once and at most
\* one history record of type 'mock' is written, whatever the interleaving
\* of timer ticks with a proceedToNext call that awaits its round feedback.
C6_FinalizedOncePerSession ==
  \A s \in 1..MaxSessions :
    /\ finishCalls[s] <= 1
    /\ Cardinality(MockRecordsOf(s)) <= 1

\* The position of a round type in INTERVIEW_STRUCTURE, from 0.
RoundIndexOf(type) ==
  CHOOSE i \in 0..(Len(INTERVIEW_STRUCTURE) - 1) : INTERVIEW_STRUCTURE[i + 1] = type

\* The timer reaches 0 while the interview is active before the last
\* question of the current round.
TimerExpiresMidRound ==
  /\ mi.flow = "active"
  /\ mi.timeLeft = 1
  /\ mi'.timeLeft = 0
  /\ RoundType(mi.currentRoundIndex) # "undefined"
  /\ ~isLastQuestionInRound(mi)

\* No entry of the list scores answers of this session's round r or a later one.
NothingFromRound(results, r) ==
  \A k \in 1..Len(results) :
    results[k].session = refs.sessionStartTime => RoundIndexOf(results[k].type) < r

TransitionFails ==
  \E i \in 1..Len(calls) :
    /\ calls[i].kind = "proceed"
    /\ calls' = Without(calls, i)
    /\ \/ calls[i].phase = "feedback"
       \/ /\ calls[i].phase = "background"
          /\ calls[i].promise # 0
          /\ promises[calls[i].promise] = "rejected"

\* C8: a round transition that fails records an error and changes neither
\* the flow (an active interview stays active) nor currentRoundIndex nor
\* currentQuestionIndex.
C8_FailedTransitionAborted ==
  [][TransitionFails =>
       /\ mi'.error = "round"
       /\ mi'.flow = mi.flow
       /\ mi'.currentRoundIndex = mi.currentRoundIndex
       /\ mi'.currentQuestionIndex = mi.currentQuestionIndex]_vars

\* The feedback call of the Technical round failed: the interview is still
\* active on the last Technical question, with the error recorded.
C8_Witness ==
  /\ mi.error = "round"
  /\ mi.flow = "active"
  /\ ~mi.isLoading
  /\ mi.currentRoundIndex = 1
  /\ isLastQuestionInRound(mi)
  /\ calls = <<>>
  /\ ~(\E k \in 1..Len(mi.roundResults) : mi.roundResults[k].type = "Technical")

\* ------------------------------------------------- resume cache properties
\* C9: once a quiz is submitted (flow 'results') or left through the
\* confirmed stop, the slot 'aptitudeQuizInProgress' is empty.
C9_SnapshotDeletedAfterQuiz ==
  ap.flow \in {"results", "stopped"} => localStorage = None

\* handleResumeQuiz runs on a loaded snapshot.
ResumeStep ==
  /\ ap.flow = "setup"
  /\ ap.savedQuizState # None
  /\ ap'.flow = "active"

\* C10: a quiz resumed from a snapshot has the questions, the userAnswers,
\* the currentQuestionIndex and the timeLeft of the active state the
\* snapshot was saved in, and questionStartTime is the instant of resuming.
C10_ResumeRoundTrip ==
  [][ResumeStep =>
       LET S == ap.savedQuizState[1].from
       IN /\ S.flow = "active"
          /\ ap'.questions = S.questions
          /\ ap'.userAnswers = S.userAnswers
          /\ ap'.currentQuestionIndex = S.currentQuestionIndex
          /\ ap'.timeLeft = S.timeLeft
          /\ ap'.questionStartTime = now]_vars

\* A diagnostic quiz left on its second question, the first answered "B"
\* and a second of the timer used, has just been resumed at a later time.
C10_Witness ==
  /\ ap.flow = "active"
  /\ ap.quizTopic = "Diagnostic Test"
  /\ ap.quizType = "Practice"
  /\ ap.currentQuestionIndex = 1
  /\ ap.userAnswers[1] = Some("B")
  /\ ap.userAnswers[2] = None
  /\ ap.timeLeft = Some(QuizSeconds - 1)
  /\ ap.questionStartTime = now
  /\ localStorage # None
  /\ localStorage[1].from.currentQuestionIndex = 1
  /\ localStorage[1].from.questionStartTime < now

\* C11: a question set generated by one startQuiz is written to the history
\* at most once, whatever the sequence of start, answer, submit, timer
\* expiry, navigation away, reload and resume.
C11_QuizSavedAtMostOnce ==
  quizRecords <= 1

\* ------------------------------------------------------- badge properties
\* The badge ids the system computes for the stored collection hist.
BadgesRead(hist, streak, revs, t) ==
  checkAllBadges(getInterviewHistory(hist), streak, revs, t)

\* C12: when the history is extended by a further record, with the same
\* streak and revision count, every badge returned for the history as the
\* system reads it is returned for the extended history as the system reads
\* it.
C12_BadgesMonotoneInHistory ==
  [][ /\ Len(history') = Len(history) + 1
      /\ SubSeq(history', 2, Len(history')) = history
      => BadgesRead(history, profile'.streak, revisions', now')
           \subseteq BadgesRead(history', profile'.streak, revisions', now') ]_vars

\* The instants at which the stored documents can be evaluated: now or later.
Instants == now..(2 * MaxDay + 1)

\* C13 as stated: for the same history, streak and revision count the
\* evaluator returns the same badge ids at every moment of evaluation.
C13_BadgesIndependentOfMoment ==
  \A t \in Instants :
     BadgesRead(history, profile.streak, revisions, t)
       = BadgesRead(history, profile.streak, revisions, now)

\* C13 amended: for the same history, streak and revision count, two
\* evaluations at any two moments agree on every badge except
\* 'weekend-warrior', which the evaluator returns exactly when the history is
\* not empty and the moment of evaluation is a Saturday or a Sunday on the
\* calendar day of the newest record.
C13_OnlyWeekendWarriorReadsTheClock ==
  LET atNow == BadgesRead(history, profile.streak, revisions, now) \ {"weekend-warrior"}
  IN \A t \in Instants :
       LET atT == BadgesRead(history, profile.streak, revisions, t)
       IN /\ atT \ {"weekend-warrior"} = atNow
          /\ "weekend-warrior" \in atT <=>
                /\ history # <<>>
                /\ (toDateString(t) + 3) % 7 \in {0, 6}
                /\ toDateString(history[1].timestamp) = toDateString(t)

\* A record was saved on a Saturday: evaluated now the evaluator returns
\* 'weekend-warrior' (and the badge was persisted), evaluated at another
\* moment on the same inputs it does not.
C13_Witness ==
  /\ history # <<>>
  /\ history[1].quizType = "Diagnostic"
  /\ getDay(now) = 6
  /\ badges["weekend-warrior"].earned
  /\ "weekend-warrior" \in BadgesRead(history, profile.streak, revisions, now)
  /\ \E t \in Instants :
        "weekend-warrior" \notin BadgesRead(history, profile.streak, revisions, t)

\* The number of aptitude records in the stored collection.
AptitudeCount(hist) == Len(SelectSeq(hist, LAMBDA h : h.type = "aptitude"))

\* C14: when the save of the tenth aptitude record has completed, the badge
\* 'apti-10' is among the persisted badges, whatever the scores.
C14_TenthAptitudeAwardsBadge ==
  [][ AptitudeCount(history) = 9 /\ AptitudeCount(history') = 10
      => badges'["apti-10"].exists /\ badges'["apti-10"].earned ]_vars

\* C20: a user holds 'apti-50' once the save of their fiftieth aptitude
\* record has completed, whatever number of records of other types were
\* saved in between.
C20_FiftiethAptitudeAwardsBadge ==
  [][ AptitudeCount(history) = 49 /\ AptitudeCount(history') = 50
      => badges'["apti-50"].exists /\ badges'["apti-50"].earned ]_vars

\* ---------------------------------------------- goal accuracy properties
\* The aptitude records of a topic, newest first, and the sum of the scores
\* of the first k of them.
TopicRecords(hist, topic) ==
  SelectSeq(hist, LAMBDA h : h.type = "aptitude" /\ h.topic = topic)

RECURSIVE SumFirst(_, _)
SumFirst(records, k) ==
  IF k = 0 THEN 0 ELSE records[k].scoreRating.num + SumFirst(records, k - 1)

\* fetchData of tab s completes in this step.
FetchStep(s) == dash[s].pc = "fetch" /\ dash'[s].pc = "idle"

\* C15: getActiveGoal returns an active goal of the user whose
\* currentAccuracy is the average score of the k = min(5, n) most recent of
\* the n aptitude records of the goal's topic, and the stored value when
\* k = 0; the stored documents change exactly when the average differs from
\* the stored value, and then in the currentAccuracy of that goal only.
C15_ActiveGoalRefreshed ==
  [][ \A s \in Tabs :
        FetchStep(s) /\ dash'[s].activeGoal # None =>
          LET id == dash'[s].activeGoal[1]
              matching == TopicRecords(history, goals[id].topic)
              k == Min(5, Len(matching))
          IN /\ goals[id].userId = Uid /\ goals[id].isActive
             /\ Len(goals') = Len(goals)
             /\ \A j \in 1..Len(goals) : j # id => goals'[j] = goals[j]
             /\ goals'[id] = [goals[id] EXCEPT !.currentAccuracy = goals'[id].currentAccuracy]
             /\ k = 0 => goals'[id].currentAccuracy = goals[id].currentAccuracy
             /\ k > 0 => k * goals'[id].currentAccuracy = Percent(SumFirst(matching, k))
             /\ goals' # goals <=>
                  (k > 0 /\ k * goals[id].currentAccuracy # Percent(SumFirst(matching, k)))
    ]_vars

\* A tab shows a goal whose topic has more than five records and whose
\* currentAccuracy, refreshed after a new quiz, is the average of the five
\* most recent ones and no longer the initial accuracy.
C15_Witness ==
  \E s \in Tabs :
     /\ dash[s].pc = "idle"
     /\ dash[s].activeGoal # None
     /\ LET g == goals[dash[s].activeGoal[1]]
            matching == TopicRecords(history, g.topic)
        IN /\ Len(matching) > 5
           /\ g.currentAccuracy # g.initialAccuracy
           /\ 5 * g.currentAccuracy = Percent(SumFirst(matching, 5))
           /\ 6 * g.currentAccuracy # Percent(SumFirst(matching, 6))

\* C16: the goal handleSave hands to setUserGoal has initialAccuracy and
\* currentAccuracy equal to the user's average accuracy, at that time, for
\* the topic the goal itself carries (the average of the up to five most
\* recent aptitude records of that topic), and 0 when there is no such
\* record, whatever topics the two AI calls answered.
C16_InitialAccuracyOfGoalTopic ==
  [][ \A s \in Tabs :
        dash[s].pc = "idle" /\ dash'[s].pc = "commit" =>
          LET goal == dash'[s].goal[1]
              matching == TopicRecords(history, goal.topic)
              k == Min(5, Len(matching))
          IN /\ goal.currentAccuracy = goal.initialAccuracy
             /\ k = 0 => goal.initialAccuracy = 0
             /\ k > 0 => k * goal.initialAccuracy = Percent(SumFirst(matching, k))
    ]_vars

\* ------------------------------------------------------ scoring properties
\* The positions at which the answer of render a is the correct option.
CorrectPositions(a) ==
  { i \in 1..Len(a.questions) :
      a.userAnswers[i] # None /\ a.userAnswers[i][1] = a.questions[i].correctAnswer }

\* The quiz is submitted in this step, by the user or by the timer.
SubmitStep == ap.flow = "active" /\ ap'.flow = "results"

\* C17: the result of a submitted quiz of n >= 1 questions, c of them
\* answered with the correct option, has correctAnswers = c,
\* incorrectAnswers = n - c, total = n and score = 100 * c / n; a question
\* left unanswered is among the incorrect ones.
C17_QuizResult ==
  [][ SubmitStep =>
        LET n == Len(ap.questions)
            c == Cardinality(CorrectPositions(ap))
            unanswered == {i \in 1..n : ap.userAnswers[i] = None}
            r == ap'.result[1]
        IN /\ n >= 1
           /\ ap'.result # None
           /\ r.correctAnswers = c
           /\ r.incorrectAnswers = n - c
           /\ r.total = n
           /\ n * r.score = Percent(100 * c)
           /\ r.incorrectAnswers >= Cardinality(unanswered) ]_vars

\* A quiz of five questions, three answered correctly, one wrongly and one
\* not at all, was submitted by the timer: the result shows 60, 3 and 2.
C17_Witness ==
  /\ ap.flow = "results"
  /\ Len(ap.questions) = 5
  /\ Cardinality(CorrectPositions(ap)) = 3
  /\ \E i \in 1..5 : ap.userAnswers[i] = None
  /\ \E i \in 1..5 : ap.userAnswers[i] = Some("B")
  /\ ap.timeLeft = Some(0)
  /\ ap.result = Some([score |-> Percent(60), total |-> 5,
                       correctAnswers |-> 3, incorrectAnswers |-> 2])
  /\ history # <<>>
  /\ history[1].scoreRating = NumberRating(60)

\* ------------------------------------------------ failure properties
\* The saveInterviewHistory call of finishInterview invocation i fails in
\* this step: the invocation ends and nothing is written.
MockSaveFails(i) ==
  /\ calls[i].kind = "finish"
  /\ calls[i].phase = "save"
  /\ calls' = Without(calls, i)
  /\ history' = history

\* C18: when the history save fails after the overall report of the mock
\* interview has been set, the report and the finalized results in the
\* component state are what they were before the failure.
C18_FailedSaveKeepsResult ==
  [][ \A i \in 1..Len(calls) :
        MockSaveFails(i) =>
          /\ mi'.overallFeedback = mi.overallFeedback
          /\ mi'.finalResults = mi.finalResults ]_vars

\* C19: after a failed external call the aptitude component is not left in
\* its loading view: whenever it shows the loading view, a call that will
\* end it is still in flight.
C19_NoLoadingWithoutPendingCall ==
  ap.flow = "loading" => ap.pending # "none"


\* C21: whenever the mock interview is active in a round after the first,
\* the background fetch started by startInterview for this session has
\* resolved and the Technical and HR question lists are stored.
C21_RoundOnlyAfterFetch ==
  (mi.flow = "active" /\ mi.currentRoundIndex >= 1) =>
    /\ refs.backgroundFetchPromise # 0
    /\ promises[refs.backgroundFetchPromise] = "resolved"
    /\ mi.technicalQuestions = ROUND_QUESTION_COUNT["Technical"]
    /\ mi.hrQuestions = ROUND_QUESTION_COUNT["HR"]


\* A step of the active view that changes the question shown, the round or
\* an answer.
QuestionOrRoundStep ==
  /\ mi.flow = "active"
  /\ \/ mi'.currentQuestionIndex # mi.currentQuestionIndex
     \/ mi'.currentRoundIndex # mi.currentRoundIndex
     \/ mi'.aptitudeAnswers # mi.aptitudeAnswers
     \/ mi'.technicalAnswers # mi.technicalAnswers
     \/ mi'.hrAnswers # mi.hrAnswers
     \/ mi'.roundResults # mi.roundResults

\* The rest of startInterview runs: a pending start call is taken off.
StartCompletes ==
  \E i \in 1..Len(calls) : calls[i].kind = "start" /\ calls' = Without(calls, i)

\* C22: one countdown for all rounds. timeLeft is never negative; a step
\* changes it only by setting it to duration*60 at the end of startInterview
\* or by decreasing it by 1 in a tick of the active interview; question
\* steps and round transitions leave it unchanged.
C22_SingleCountdown ==
  /\ [](mi.timeLeft >= 0)
  /\ [][/\ mi'.timeLeft # mi.timeLeft =>
             \/ StartCompletes /\ mi'.timeLeft = MockSeconds
             \/ /\ mi.flow = "active"
                /\ mi'.timeLeft = mi.timeLeft - 1
                /\ ~QuestionOrRoundStep
        /\ QuestionOrRoundStep => mi'.timeLeft = mi.timeLeft]_vars

\* The HR round is reached after one tick: the countdown started by
\* startInterview went on across both round transitions.
C22_Witness ==
  /\ mi.flow = "active"
  /\ mi.currentRoundIndex = 2
  /\ mi.timeLeft = MockSeconds - 1
  /\ Len(mi.roundResults) = 1 + ROUND_QUESTION_COUNT["Technical"]


\* C23: while the aptitude quiz stays active and mounted (an answer is
\* selected, the next or previous question is shown, the timer ticks), local
\* storage is left unchanged: the snapshot is written only on page unload
\* or when the component is torn down.
C23_RunningQuizLeavesStorage ==
  [][(ap.flow = "active" /\ ap'.flow = "active") => localStorage' = localStorage]_vars


\* A revision question was added (tagQuestionForRevision).
TagStep == revisions' = revisions + 1

\* C24: the streak-and-badge update runs in saveInterviewHistory and in
\* tagQuestionForRevision only. Tagging writes no history record but
\* applies the streak rule and commits the badges; every step that adds
\* neither a history record nor a revision question (untagging, setting a
\* goal, fetching the active goal) leaves the profile and the badges as
\* they were.
C24_StreakAndBadgeWriters ==
  [][/\ TagStep =>
          /\ history' = history
          /\ profile' = UpdateStreak(profile, now).doc
          /\ badges' = CommitBadges(badges,
                          checkAllBadges(getInterviewHistory(history), profile'.streak,
                                         revisions', now), now)
     /\ (profile' # profile \/ badges' # badges) =>
          (TagStep \/ Len(history') = Len(history) + 1)]_vars

\* Tagging alone, with no session ever saved, gave the user a streak and
\* the 'revisionist' badge, and a goal was set and fetched meanwhile.
C24_Witness ==
  /\ history = <<>>
  /\ revisions >= 10
  /\ profile.streak = Some(7)
  /\ badges["revisionist"].earned
  /\ badges["streak-7"].earned
  /\ \E k \in 1..Len(goals) : goals[k].userId = Uid /\ goals[k].isActive
  /\ \E s \in Tabs : dash[s].activeGoal # None


\* The positions of a result list that hold the entry of a round type for
\* question q (q = 0 for the Aptitude entry).
EntriesOf(results, type, q) ==
  {k \in 1..Len(results) : results[k].type = type /\ results[k].q = q}

\* C25: the accumulated round results hold at most one Aptitude entry and
\* at most one entry per Technical and per HR question, also after a round
\* transition that failed and was triggered again.
C25_EachRoundScoredOnce ==
  /\ Cardinality(EntriesOf(mi.roundResults, "Aptitude", 0)) <= 1
  /\ \A type \in {"Technical", "HR"} : \A q \in 1..ROUND_QUESTION_COUNT[type] :
       Cardinality(EntriesOf(mi.roundResults, type, q)) <= 1


\* The interview is active and the background fetch of this session failed.
FetchFailed ==
  /\ mi.flow = "active"
  /\ refs.backgroundFetchPromise # 0
  /\ promises[refs.backgroundFetchPromise] = "rejected"

\* A proceedToNext call that waited for the background fetch ends.
TransitionEnds ==
  \E i \in 1..Len(calls) :
    /\ calls[i].kind = "proceed"
    /\ calls[i].phase = "background"
    /\ calls' = Without(calls, i)

\* C26: once the background fetch of the session has failed, the interview
\* stays in the Aptitude round: no step starts a new fetch or changes the
\* promise, every round transition that ends fails again, and the
\* interview leaves the active flow only by the timer reaching 0.
C26_FailedFetchKeepsAptitudeRound ==
  /\ [](FetchFailed => mi.currentRoundIndex = 0)
  /\ [][FetchFailed =>
          /\ Len(promises') = Len(promises)
          /\ refs' = refs
          /\ promises'[refs.backgroundFetchPromise] = "rejected"
          /\ mi'.currentRoundIndex = 0
          /\ TransitionEnds => mi'.error = "round" /\ mi'.flow = "active"
          /\ mi'.flow # "active" => mi'.flow = "results" /\ mi'.timeLeft = 0]_vars


\* C27: whenever the active view renders a question of the current round,
\* currentQuestionIndex is an index of the list fetched for that round,
\* whatever the length of the list the generator returned.
C27_QuestionIndexInList ==
  (mi.flow = "active" /\ RoundQuestions(mi) > 0) =>
    mi.currentQuestionIndex < RoundQuestions(mi)


\* C28: a quiz started as Diagnostic keeps its kind through snapshot, reload
\* and resume: while its questions are in play the component's quizType is
\* 'Diagnostic', and the history record written for it has quizType
\* 'Diagnostic' (it counts as a completed diagnostic test).
C28_ResumeKeepsQuizType ==
  /\ (ap.flow \in {"active", "results"} /\ ap.quizTopic = "Diagnostic Test") =>
       ap.quizType = "Diagnostic"
  /\ \A k \in 1..Len(history) :
       (history[k].type = "aptitude" /\ history[k].topic = "Diagnostic Test") =>
         history[k].quizType = "Diagnostic"


\* The speech recognizer delivered an utterance.
UtteranceStep == gd'.utterances = gd.utterances + 1

\* C29: in an active discussion with a selected topic every recognized
\* utterance is appended to the chat log, and once the delay of its AI turn
\* has passed orchestrateGdTurn has been called for it.
C29_UtteranceAnswered ==
  /\ [][UtteranceStep => gd'.state.chatLog = Append(gd.state.chatLog, "You")]_vars
  /\ []((gd.state.flow = "active" /\ gd.state.selectedTopic # None /\ gd.timeouts = <<>>)
          => gd.turnCalls = gd.utterances)


\* The Dashboard of tab s starts a setUserGoal call.
SetGoalStarts(s) == dash[s].pc # "commit" /\ dash'[s].pc = "commit"

\* C30: a Dashboard that shows an active goal starts no setUserGoal call,
\* and no step deactivates (or replaces) a goal of the user that is active.
C30_ActiveGoalKept ==
  [][/\ \A s \in Tabs : dash[s].activeGoal # None => ~SetGoalStarts(s)
     /\ \A i \in ActiveGoalIds(goals, Uid) : i \in ActiveGoalIds(goals', Uid)]_vars

====
